---- MODULE Spec2Model ----
(***************************************************************************)
(* A model of codex-belya's task tracking core:                            *)
(*   - TaskManager (src/belya_agents/task_manager.py): the task store and  *)
(*     its status operations;                                              *)
(*   - TaskRepository / TaskWatcher (src/belya_agents/head_belya.py): the  *)
(*     polling detector of terminal tasks;                                 *)
(*   - HeadBelyaAgent's completion event queue and its consumer loop.      *)
(***************************************************************************)
EXTENDS Integers, Sequences, FiniteSets, TLC

(***************************************************************************)
(* Bounds of the model.                                                    *)
(***************************************************************************)
\* most history entries the whole store holds (each record has at least one)
MaxEntries == 4
\* last second of the clock behind _timestamp()
MaxTime == 1
\* most threading.Timer objects the watcher creates
MaxTimers == 3

\* the most entries of a session's "tasks" list
MaxLog == 1

(***************************************************************************)
(* Values.                                                                 *)
(***************************************************************************)
\* Python's None, also the value of dict.get on an absent key
None == "None"

\* the ids a caller may supply and the pool uuid4 draws from
TaskIds == {"T1", "T2"}

\* TaskManager.VALID_STATUSES
VALID_STATUSES == {"not_started", "in_progress", "completed", "failed"}

\* TaskWatcher.TERMINAL_STATUSES
TERMINAL_STATUSES == {"completed", "failed"}

\* agent and description arguments: empty (falsy) or not
AgentArgs == {"", "codex-belya"}
DescriptionArgs == {"", "fix bug"}


\* a dict with no key
EmptyDict == [k \in {} |-> None]

\* None where a dict is expected (an omitted metadata argument)
NoDict == [none |-> TRUE]

\* the optional arguments of add_task, as its callers combine them: the
\* dispatcher passes metadata and no id, a direct caller may pass an id
AddArgs ==
    {[task_id |-> None, metadata |-> [prompt |-> "p"]]}
    \cup {[task_id |-> t, metadata |-> NoDict] : t \in TaskIds}

\* the calls of update_task_status: the ones HeadBelyaAgent makes (start with a
\* note; success with note, result and metadata patch; failure with note and
\* error), bare calls, a call giving a result and an error to a task it does
\* not end, and a call with a status name that is not valid
UpdateCalls ==
    {[status |-> "in_progress", note |-> "n", result |-> None, error |-> None,
      metadata_update |-> NoDict],
     [status |-> "completed", note |-> "n", result |-> "done", error |-> None,
      metadata_update |-> [raw_result_type |-> "str"]],
     [status |-> "failed", note |-> "n", result |-> None, error |-> "boom",
      metadata_update |-> NoDict],
     [status |-> "not_started", note |-> None, result |-> None, error |-> None,
      metadata_update |-> NoDict],
     [status |-> "completed", note |-> None, result |-> None, error |-> None,
      metadata_update |-> NoDict],
     [status |-> "in_progress", note |-> None, result |-> "done", error |-> "boom",
      metadata_update |-> NoDict],
     [status |-> "bogus", note |-> "n", result |-> "done", error |-> "boom",
      metadata_update |-> [raw_result_type |-> "str"]]}

\* the calls of update_task_status HeadBelyaAgent makes
HeadCalls == {c \in UpdateCalls : c.note # None /\ c.status \in VALID_STATUSES}

\* the note HeadBelyaAgent appends after a completion: the usage warning
WarningNote == "usage warning"

\* the completion signature of a task that is not terminal
NoSignature == <<>>

\* a slot of the event loop's ready queue that carries no event
NoEvent == [task_id |-> None, status |-> None, timestamp |-> 0, result_preview |-> None]

\* the foreground threads that call one TaskManager
Threads == {"A", "B"}

\* a thread that is making no call
NoCall == [op |-> None, task_id |-> None, status |-> None]

\* the threading.Timer objects, in the order of their creation
TimerIds == 1..MaxTimers

\* TaskWatcher._timer is None
NoTimer == 0

\* the bootstrap pass as a source of exceptions
Bootstrap == 0

\* the session ids of the calls
SessionIds == {"S1", "S2"}

\* no row of the sessions table under an id
NoRow == [none |-> TRUE]

\* {"five_hour": [], "weekly": []}
NoLevels == [five_hour |-> <<>>, weekly |-> <<>>]

\* no activity processed yet
NoActivity == [none |-> TRUE]

VARIABLES
    tasks,      \* the "tasks" list of tasks.json, in file order
    now,        \* the clock _timestamp() reads, in seconds
    issued,     \* the ids add_task has stored so far
    lastOp,     \* the last TaskManager call and how it ended
    timer,      \* TaskWatcher._timer: "none", or "armed" while a tick is scheduled
    lastSeen,   \* TaskWatcher._last_seen_completion, None read as NoSignature
    handoff,    \* the events the running _poll has still to emit
    emitted,    \* the events _emit_completion was called with, in order
    atStart,    \* each task's completion signature when start() was called
    glued,      \* the positions n where events n and n+1 came from one tick
    loop,       \* whether HeadBelyaAgent._asyncio_loop is set
    queueMade,  \* whether HeadBelyaAgent._completion_event_queue is set
    queue,      \* the items of _completion_event_queue
    pending,    \* HeadBelyaAgent._pending_completion_events
    ready,      \* the callbacks the event loop has still to run, in order
    consumer,   \* _completion_processor: "none", "scheduled", "waiting" or "done"
    notified,   \* the batches _notify_user_of_task_completions was called with
    buffered,   \* how many events the callback has put in the pending buffer
    failures,   \* the positions of the batches for which the notifier raised
    lock,       \* TaskManager._lock: the thread that holds it, or "none"
    pc,         \* where each foreground thread is in its TaskManager call
    call,       \* the TaskManager call each foreground thread is making
    local,      \* the list each thread got from _load_raw_tasks
    torn,       \* whether tasks.json is truncated and not yet written again
    observed,   \* what the latest read of tasks.json saw: "whole" or "torn"
    wTimer,     \* TaskWatcher._timer: a timer, or NoTimer for None
    stopEvent,  \* TaskWatcher._stop_event
    timers,     \* each threading.Timer: its state, then where its thread is
    made,       \* the timer each timer thread created in _schedule_next
    callerPc,   \* where the thread calling start() and stop() is
    callerTimer, \* the timer that thread holds in a local variable
    stopped,    \* whether stop() has returned and start() was not called since
    errorsSeen, \* the sources of the exceptions given to _emit_error
    bg,         \* each task's asyncio task of _background_tasks and its callback
    ended,      \* how each task's execute_directive call ended, None while it has not
    sessions,   \* the rows of the sessions table by session_id, NoRow where none
    sLast,      \* the last SessionStore call, its arguments and what it returned
    cache,      \* rate_limit_warning_cache: each session's warned levels by window
    said,       \* the level of the warning the latest post-processing gave, by window
    activity,   \* the prompt, output and worker payload of the latest activity
    agentSession \* CodexAgent.session.session_id: the active session

storeVars == <<tasks, now, issued, lastOp>>

watcherVars == <<timer, lastSeen, handoff, emitted, atStart, glued>>

busVars == <<loop, queueMade, queue, pending, ready, consumer, notified, buffered,
            failures>>

lockVars == <<lock, pc, call, local, torn, observed>>

\* the variables of the thread-level views of the store
timerVars == <<wTimer, stopEvent, timers, made, callerPc, callerTimer, stopped, errorsSeen>>

\* the variables of the background Codex tasks
dispatchVars == <<bg, ended>>

\* the variables of the session store
sessionVars == <<sessions, sLast>>

\* the variables of the usage warnings
usageVars == <<cache, said, activity, agentSession>>

auxVars == <<lockVars, timerVars, dispatchVars, sessionVars, usageVars>>

vars == <<tasks, now, issued, lastOp, timer, lastSeen, handoff, emitted, atStart,
          glued, loop, queueMade, queue, pending, ready, consumer, notified, buffered,
          failures,
          lock, pc, call, local, torn, observed,
          wTimer, stopEvent, timers, made, callerPc, callerTimer, stopped, errorsSeen,
          bg, ended, sessions, sLast, cache, said, activity,
          agentSession>>

(***************************************************************************)
(* TaskManager helpers.                                                    *)
(***************************************************************************)
\* Python truthiness of an optional string argument
Truthy(x) == x # None /\ x # ""

\* Python truthiness of an optional dict argument
TruthyDict(d) == d # NoDict /\ d # EmptyDict

\* _timestamp(): the clock at second precision
_timestamp == now

\* a history entry that leaves the status out
_history_entry_WithoutStatus(status, note) ==
    [timestamp |-> _timestamp,
     status |-> None,
     note |-> IF Truthy(note) THEN note ELSE None]

\* _history_entry(status, note): "status" and "note" are stored only when truthy
_history_entry(status, note) ==
    [timestamp |-> _timestamp,
     status |-> IF Truthy(status) THEN status ELSE None,
     note |-> IF Truthy(note) THEN note ELSE None]

\* a search that falls back on the first record when the id is not stored
FirstIndex_FallsBackOnFirst(ts, task_id) ==
    IF \E i \in 1..Len(ts) : ts[i].id = task_id
    THEN CHOOSE i \in 1..Len(ts) :
            /\ ts[i].id = task_id
            /\ \A j \in 1..(i - 1) : ts[j].id # task_id
    ELSE IF ts # <<>> THEN 1 ELSE 0

\* the position of the first record with this id, 0 when there is none
FirstIndex(ts, task_id) ==
    IF \E i \in 1..Len(ts) : ts[i].id = task_id
    THEN CHOOSE i \in 1..Len(ts) :
            /\ ts[i].id = task_id
            /\ \A j \in 1..(i - 1) : ts[j].id # task_id
    ELSE 0

\* an update that stores the patch in place of the metadata
DictUpdate_Replaces(existing, patch) == patch

\* dict.update: a shallow merge, the patch's keys win
DictUpdate(existing, patch) ==
    [k \in (DOMAIN existing) \cup (DOMAIN patch) |->
        IF k \in DOMAIN patch THEN patch[k] ELSE existing[k]]

\* TaskRecord(...).to_dict() as add_task builds it
NewRecord(id, agent, description, metadata) ==
    [id |-> id,
     agent |-> agent,
     description |-> description,
     status |-> "not_started",
     created_at |-> _timestamp,
     updated_at |-> _timestamp,
     metadata |-> IF TruthyDict(metadata) THEN metadata ELSE EmptyDict,
     result |-> None,
     error |-> None,
     history |-> <<_history_entry("not_started", "Task created")>>]

\* _normalize_status accepting every status name
StatusRejected_Never(status) == FALSE

\* _normalize_status: whether it raises
StatusRejected(status) == status \notin VALID_STATUSES

\* update_task_status writing its entry over the latest one of the history
UpdatedRecord_OverwritesLatest(entry, status, note, result, error, metadata_update) ==
    [entry EXCEPT
        !.status = status,
        !.updated_at = _timestamp,
        !.result = IF result # None THEN result ELSE @,
        !.error = IF error # None THEN error ELSE @,
        !.history = [@ EXCEPT ![Len(@)] =
                        _history_entry(status, IF Truthy(note) THEN note ELSE "")]]

\* the record update_task_status writes for a matching entry
UpdatedRecord(entry, status, note, result, error, metadata_update) ==
    [entry EXCEPT
        !.status = status,
        !.updated_at = _timestamp,
        !.result = IF result # None THEN result ELSE @,
        !.error = IF error # None THEN error ELSE @,
        !.metadata = IF TruthyDict(metadata_update)
                     THEN DictUpdate(@, metadata_update) ELSE @,
        !.history = Append(@, _history_entry(status,
                                  IF Truthy(note) THEN note ELSE ""))]

\* append_task_note keeping the note as the whole history
NotedRecord_DropsHistory(entry, note) ==
    [entry EXCEPT
        !.history = <<_history_entry(entry.status, note)>>,
        !.updated_at = _timestamp]

\* the record append_task_note writes for a matching entry
NotedRecord(entry, note) ==
    [entry EXCEPT
        !.history = Append(@, _history_entry(entry.status, note)),
        !.updated_at = _timestamp]

\* a cleanup that drops the failed records with the completed ones
RECURSIVE ActiveTasks_DropsTerminal(_)
ActiveTasks_DropsTerminal(ts) ==
    IF ts = <<>> THEN <<>>
    ELSE IF Head(ts).status \notin TERMINAL_STATUSES
         THEN <<Head(ts)>> \o ActiveTasks_DropsTerminal(Tail(ts))
         ELSE ActiveTasks_DropsTerminal(Tail(ts))

\* the list clear_completed_tasks writes
RECURSIVE ActiveTasks(_)
ActiveTasks(ts) ==
    IF ts = <<>> THEN <<>>
    ELSE IF Head(ts).status # "completed"
         THEN <<Head(ts)>> \o ActiveTasks(Tail(ts))
         ELSE ActiveTasks(Tail(ts))

\* the first record of a list with this id, or None
FirstRecord(ts, task_id) ==
    IF FirstIndex(ts, task_id) = 0 THEN None
    ELSE ts[FirstIndex(ts, task_id)]

\* get_task: the first stored record with this id, or None
get_task(task_id) == FirstRecord(tasks, task_id)

\* the number of history entries in the list
RECURSIVE Entries(_)
Entries(ts) == IF ts = <<>> THEN 0 ELSE Len(Head(ts).history) + Entries(Tail(ts))

\* how a call ended: the exception it raised (InvalidArgument and InvalidStatus
\* are the two ValueErrors, NotFound the KeyError) and the value it returned
Outcome(op, raised, ret) == [op |-> op, raised |-> raised, ret |-> ret]

(***************************************************************************)
(* TaskManager operations.  Each runs under TaskManager._lock: load the    *)
(* list, change it, write it back.                                         *)
(***************************************************************************)
\* add_task checking the agent only
ArgumentsRejected_AgentOnly(agent, description) == ~Truthy(agent)

\* add_task's argument checks: whether it raises
ArgumentsRejected(agent, description) == ~Truthy(agent) \/ ~Truthy(description)

\* add_task(agent, description, task_id, metadata); uuid is uuid4().hex
add_task(agent, description, task_id, metadata, uuid) ==
    LET id == IF Truthy(task_id) THEN task_id ELSE uuid IN
    IF ArgumentsRejected(agent, description)
    THEN /\ lastOp' = Outcome("add_task", "InvalidArgument", None)
         /\ UNCHANGED <<tasks, now, issued>>
    ELSE /\ Entries(tasks) < MaxEntries
         /\ tasks' = Append(tasks, NewRecord(id, agent, description, metadata))
         /\ issued' = issued \cup {id}
         /\ lastOp' = Outcome("add_task", None, id)
         /\ UNCHANGED now

\* update_task_status(task_id, status, note, result, error, metadata_update)
update_task_status(task_id, status, note, result, error, metadata_update) ==
    LET i == FirstIndex(tasks, task_id) IN
    IF StatusRejected(status)
    THEN /\ lastOp' = Outcome("update_task_status", "InvalidStatus", None)
         /\ UNCHANGED <<tasks, now, issued>>
    ELSE IF i = 0
    THEN /\ lastOp' = Outcome("update_task_status", "NotFound", None)
         /\ UNCHANGED <<tasks, now, issued>>
    ELSE /\ Entries(tasks) < MaxEntries
         /\ tasks' = [tasks EXCEPT ![i] =
                UpdatedRecord(@, status, note, result, error, metadata_update)]
         /\ lastOp' = Outcome("update_task_status", None, None)
         /\ UNCHANGED <<now, issued>>

\* append_task_note(task_id, note)
append_task_note(task_id, note) ==
    LET i == FirstIndex(tasks, task_id) IN
    IF ~Truthy(note)
    THEN /\ lastOp' = Outcome("append_task_note", None, None)
         /\ UNCHANGED <<tasks, now, issued>>
    ELSE IF i = 0
    THEN /\ lastOp' = Outcome("append_task_note", "NotFound", None)
         /\ UNCHANGED <<tasks, now, issued>>
    ELSE /\ Entries(tasks) < MaxEntries
         /\ tasks' = [tasks EXCEPT ![i] = NotedRecord(@, note)]
         /\ lastOp' = Outcome("append_task_note", None, None)
         /\ UNCHANGED <<now, issued>>

\* clear_completed_tasks()
clear_completed_tasks ==
    /\ tasks' = ActiveTasks(tasks)
    /\ lastOp' = Outcome("clear_completed_tasks", None, None)
    /\ UNCHANGED <<now, issued>>

(***************************************************************************)
(* TaskRepository and TaskWatcher.                                         *)
(***************************************************************************)
\* TaskRepository.load_tasks: the records of the file that carry an id, each
\* as taskId and history.  Every write of tasks.json is taken to change its
\* st_mtime_ns, so a load that follows a write parses the file again.
RECURSIVE load_tasks(_)
load_tasks(ts) ==
    IF ts = <<>> THEN <<>>
    ELSE IF Truthy(Head(ts).id)
         THEN <<[taskId |-> Head(ts).id, history |-> Head(ts).history]>>
              \o load_tasks(Tail(ts))
         ELSE load_tasks(Tail(ts))

\* _extract_result_preview: the entry's resultPreview, result_preview,
\* result_summary or result; a history entry carries none of these keys
_extract_result_preview(entry) == None

\* the completion signature _poll derives from a history: status, timestamp
\* and history length of a terminal latest entry
CompletionSignature(history) ==
    IF history # <<>> /\ history[Len(history)].status \in TERMINAL_STATUSES
    THEN <<history[Len(history)].status, history[Len(history)].timestamp, Len(history)>>
    ELSE NoSignature

\* TaskCompletionEvent for the latest entry of a task
CompletionEvent(task) ==
    LET latest_entry == task.history[Len(task.history)] IN
    [task_id |-> task.taskId,
     status |-> latest_entry.status,
     timestamp |-> latest_entry.timestamp,
     result_preview |-> _extract_result_preview(latest_entry)]

\* is_new_completion without the comparison to the recorded signature
IsNewCompletion_IgnoresBaseline(bootstrap, completion_signature, previous_signature) ==
    /\ ~bootstrap
    /\ completion_signature # NoSignature

\* whether _poll emits for a task: is_new_completion
IsNewCompletion(bootstrap, completion_signature, previous_signature) ==
    /\ ~bootstrap
    /\ completion_signature # NoSignature
    /\ completion_signature # previous_signature

\* a _poll that does not record the signatures it reads
RECURSIVE _poll_RecordsNothing(_, _, _, _)
_poll_RecordsNothing(loaded, seen, events, bootstrap) ==
    IF loaded = <<>> THEN [seen |-> seen, events |-> events]
    ELSE LET task == Head(loaded)
             completion_signature == CompletionSignature(task.history)
             previous_signature == seen[task.taskId]
         IN _poll_RecordsNothing(Tail(loaded),
                  seen,
                  IF IsNewCompletion(bootstrap, completion_signature, previous_signature)
                  THEN Append(events, CompletionEvent(task))
                  ELSE events,
                  bootstrap)

\* _poll over the loaded list, task by task: the signatures it leaves in
\* _last_seen_completion and the events it emits
RECURSIVE _poll(_, _, _, _)
_poll(loaded, seen, events, bootstrap) ==
    IF loaded = <<>> THEN [seen |-> seen, events |-> events]
    ELSE LET task == Head(loaded)
             completion_signature == CompletionSignature(task.history)
             previous_signature == seen[task.taskId]
         IN _poll(Tail(loaded),
                  [seen EXCEPT ![task.taskId] = completion_signature],
                  IF IsNewCompletion(bootstrap, completion_signature, previous_signature)
                  THEN Append(events, CompletionEvent(task))
                  ELSE events,
                  bootstrap)

\* the signature the store holds for an id (of its first record)
StoredSignature(task_id) ==
    IF FirstIndex(tasks, task_id) = 0 THEN NoSignature
    ELSE CompletionSignature(tasks[FirstIndex(tasks, task_id)].history)

\* TaskWatcher.start(): nothing when a timer is set; else the bootstrap pass,
\* whose exception (load_tasks failing on the file) is passed to _emit_error,
\* and then the first timer either way
start(load_ok) ==
    /\ timer = "none"
    /\ lastSeen' = IF load_ok THEN _poll(load_tasks(tasks), lastSeen, <<>>, TRUE).seen
                   ELSE lastSeen
    /\ atStart' = [t \in TaskIds |-> StoredSignature(t)]
    /\ timer' = "armed"
    /\ UNCHANGED <<handoff, emitted, glued>>

\* TaskWatcher._run_cycle(): one tick of the timer, up to the point where
\* _poll has read the file and compared the signatures; an exception of _poll
\* (load_tasks failing) is passed to _emit_error, and the next timer is set
\* either way.  The events found are emitted one by one, see _emit_completion.
_run_cycle(load_ok) ==
    /\ timer = "armed"
    /\ handoff = <<>>
    /\ LET polled == IF load_ok THEN _poll(load_tasks(tasks), lastSeen, <<>>, FALSE)
                     ELSE [seen |-> lastSeen, events |-> <<>>] IN
        /\ lastSeen' = polled.seen
        /\ handoff' = polled.events
        /\ glued' = glued \cup
             {Len(emitted) + k : k \in 1..(Len(polled.events) - 1)}
    /\ timer' = "armed"
    /\ UNCHANGED <<emitted, atStart>>

(***************************************************************************)
(* HeadBelyaAgent's completion events: the callback registered with the    *)
(* watcher, the asyncio queue and its consumer task.                       *)
(***************************************************************************)
\* a callback of the event loop
Callback(kind, event) == [kind |-> kind, event |-> event]

\* a put_nowait that leaves the waiting consumer asleep
PutWakes_Never(items) == FALSE

\* asyncio.Queue.put_nowait: the item is queued and a consumer waiting in
\* queue.get() is scheduled to run
PutWakes(items) == items # <<>> /\ consumer = "waiting"

\* _handle_task_completion_event(event): buffered while the loop or the queue
\* is missing, else _enqueue is handed to the loop with call_soon_threadsafe
_handle_task_completion_event(event) ==
    IF ~loop \/ ~queueMade
    THEN /\ pending' = Append(pending, event)
         /\ buffered' = buffered + 1
         /\ UNCHANGED <<loop, queueMade, queue, ready, consumer, notified, failures>>
    ELSE /\ ready' = Append(ready, Callback("_enqueue", event))
         /\ UNCHANGED <<loop, queueMade, queue, pending, consumer, notified, buffered,
                        failures>>

\* _emit_completion(event): the watcher thread calls the registered callback
_emit_completion ==
    /\ handoff # <<>>
    /\ emitted' = Append(emitted, Head(handoff))
    /\ handoff' = Tail(handoff)
    /\ _handle_task_completion_event(Head(handoff))
    /\ UNCHANGED <<timer, lastSeen, atStart, glued>>

\* _ensure_task_watcher_started dropping the buffered events
FlushPending_Dropped(q, buffered_events) == q

\* the queue after _ensure_task_watcher_started moved the buffered events to it
FlushPending(q, buffered_events) == q \o buffered_events

\* a consumer that notifies about the first event only and discards the rest
DrainBatch_FirstOnly(q) == <<Head(q)>>

\* the batch the consumer builds: the first event and all that get_nowait
\* still finds
DrainBatch(q) == q

\* _enqueue(), run by the loop: queue.put_nowait(event)
_enqueue(event) ==
    IF ~queueMade
    THEN /\ pending' = Append(pending, event)
         /\ buffered' = buffered + 1
         /\ ready' = Tail(ready)
         /\ UNCHANGED <<loop, queueMade, queue, consumer, notified, failures>>
    ELSE /\ queue' = Append(queue, event)
         /\ consumer' = IF PutWakes(<<event>>) THEN "scheduled" ELSE consumer
         /\ ready' = IF PutWakes(<<event>>)
                     THEN Append(Tail(ready), Callback("_process_completion_events", NoEvent))
                     ELSE Tail(ready)
         /\ UNCHANGED <<loop, queueMade, pending, notified, buffered, failures>>

\* a consumer whose task ends with the notifier's exception
ConsumerAfterNotify_EndsOnFailure(notify_ok) == IF notify_ok THEN "waiting" ELSE "done"

\* the consumer after the notifier call: an exception of the notifier is
\* caught and logged, and the loop goes on to task_done and queue.get()
ConsumerAfterNotify(notify_ok) == "waiting"

\* _process_completion_events(), run by the loop until it waits in queue.get():
\* with events queued it builds one batch and calls the notifier once, which
\* returns or raises, and waits again
_process_completion_events(notify_ok) ==
    /\ notified' = IF queue # <<>> THEN Append(notified, DrainBatch(queue)) ELSE notified
    /\ failures' = IF queue # <<>> /\ ~notify_ok
                   THEN failures \cup {Len(notified) + 1} ELSE failures
    /\ queue' = <<>>
    /\ consumer' = IF queue # <<>> THEN ConsumerAfterNotify(notify_ok) ELSE "waiting"
    /\ ready' = Tail(ready)
    /\ UNCHANGED <<loop, queueMade, pending, buffered>>

\* on_enter(): the loop is recorded, then _ensure_task_watcher_started makes
\* the queue, creates the consumer task, starts the watcher and moves the
\* buffered events to the queue
on_enter(load_ok) ==
    /\ loop' = TRUE
    /\ queueMade' = TRUE
    /\ consumer' = IF consumer \in {"none", "done"} \/ PutWakes(pending)
                   THEN "scheduled" ELSE consumer
    /\ ready' = IF consumer \in {"none", "done"} \/ PutWakes(pending)
                THEN Append(ready, Callback("_process_completion_events", NoEvent))
                ELSE ready
    /\ IF timer = "none" THEN start(load_ok) ELSE UNCHANGED watcherVars
    /\ queue' = FlushPending(queue, pending)
    /\ pending' = <<>>
    /\ UNCHANGED <<notified, buffered, failures>>

(***************************************************************************)
(* The task store under arbitrary calls.                                   *)
(***************************************************************************)
AddTask ==
    /\ \E agent \in AgentArgs, description \in DescriptionArgs, a \in AddArgs :
        \E uuid \in IF Truthy(a.task_id) THEN {None} ELSE TaskIds \ issued :
            add_task(agent, description, a.task_id, a.metadata, uuid)
    /\ UNCHANGED <<watcherVars, busVars, auxVars>>

UpdateStatus ==
    /\ \E task_id \in TaskIds, c \in UpdateCalls :
        update_task_status(task_id, c.status, c.note, c.result, c.error, c.metadata_update)
    /\ UNCHANGED <<watcherVars, busVars, auxVars>>

AppendNote ==
    /\ \E task_id \in TaskIds, note \in {"", WarningNote} : append_task_note(task_id, note)
    /\ UNCHANGED <<watcherVars, busVars, auxVars>>

ClearCompleted ==
    /\ clear_completed_tasks
    /\ UNCHANGED <<watcherVars, busVars, auxVars>>

Init ==
    /\ tasks = <<>>
    /\ now = 0
    /\ issued = {}
    /\ lastOp = Outcome("init", None, None)
    /\ timer = "none"
    /\ lastSeen = [t \in TaskIds |-> NoSignature]
    /\ handoff = <<>>
    /\ emitted = <<>>
    /\ atStart = [t \in TaskIds |-> NoSignature]
    /\ glued = {}
    /\ loop = FALSE
    /\ queueMade = FALSE
    /\ queue = <<>>
    /\ pending = <<>>
    /\ ready = <<>>
    /\ consumer = "none"
    /\ notified = <<>>
    /\ buffered = 0
    /\ failures = {}
    /\ lock = "none"
    /\ pc = [th \in Threads |-> "idle"]
    /\ call = [th \in Threads |-> NoCall]
    /\ local = [th \in Threads |-> <<>>]
    /\ torn = FALSE
    /\ observed = "whole"
    /\ wTimer = NoTimer
    /\ stopEvent = FALSE
    /\ timers = [t \in TimerIds |-> "unused"]
    /\ made = [t \in TimerIds |-> NoTimer]
    /\ callerPc = "idle"
    /\ callerTimer = NoTimer
    /\ stopped = FALSE
    /\ errorsSeen = {}
    /\ bg = [t \in TaskIds |-> "none"]
    /\ ended = [t \in TaskIds |-> None]
    /\ sessions = [id \in SessionIds |-> NoRow]
    /\ sLast = [op |-> "init", session_id |-> None, arg |-> None, ret |-> None]
    /\ cache = [id \in SessionIds |-> NoLevels]
    /\ said = NoLevels
    /\ activity = NoActivity
    /\ agentSession = "S1"

Next ==
    \/ AddTask
    \/ UpdateStatus
    \/ AppendNote
    \/ ClearCompleted

Spec == Init /\ [][Next]_vars

(***************************************************************************)
(* The watcher beside the foreground path: HeadBelyaAgent creates tasks    *)
(* (add_task without an id), changes their status and appends notes while  *)
(* the timer thread polls.  The events go to the registered callback.      *)
(***************************************************************************)
\* the ids of the stored records
StoredIds == {tasks[i].id : i \in 1..Len(tasks)}

\* _create_task_entry's add_task: no task id, so uuid4 names the record
CreateTask ==
    /\ \E uuid \in TaskIds \ issued :
        add_task("codex-belya", "fix bug", None, [prompt |-> "p"], uuid)
    /\ UNCHANGED <<watcherVars, busVars, auxVars>>

\* a status change of a stored task: _create_task_entry, _run_codex_task,
\* complete_head_task, fail_head_task
ChangeStatus ==
    /\ \E task_id \in StoredIds, c \in HeadCalls :
        /\ update_task_status(task_id, c.status, c.note, c.result, c.error, c.metadata_update)
    /\ UNCHANGED <<watcherVars, busVars, auxVars>>

\* the usage warning appended to a stored task
AppendWarning ==
    /\ \E task_id \in StoredIds : append_task_note(task_id, WarningNote)
    /\ UNCHANGED <<watcherVars, busVars, auxVars>>

\* a second passes
Advance ==
    /\ now < MaxTime
    /\ now' = now + 1
    /\ UNCHANGED <<tasks, issued, lastOp>>
    /\ UNCHANGED <<watcherVars, busVars, auxVars>>

WatcherStart ==
    /\ \E load_ok \in BOOLEAN : start(load_ok)
    /\ UNCHANGED <<storeVars, busVars, auxVars>>

WatcherTick ==
    /\ \E load_ok \in BOOLEAN : _run_cycle(load_ok)
    /\ UNCHANGED <<storeVars, busVars, auxVars>>

EmitCompletion ==
    /\ _emit_completion
    /\ UNCHANGED <<storeVars, auxVars>>

WatcherNext ==
    \/ CreateTask
    \/ ChangeStatus
    \/ AppendWarning
    \/ Advance
    \/ WatcherStart
    \/ WatcherTick
    \/ EmitCompletion

WatcherSpec == Init /\ [][WatcherNext]_vars

(***************************************************************************)
(* The completion events on their way to the user: tasks end, the watcher  *)
(* started by on_enter polls and hands its events over, and the event loop *)
(* runs its callbacks.                                                     *)
(***************************************************************************)
\* a stored task ends: _run_codex_task, complete_head_task, fail_head_task
Finish ==
    /\ \E task_id \in StoredIds, c \in HeadCalls :
        /\ c.status \in TERMINAL_STATUSES
        /\ update_task_status(task_id, c.status, c.note, c.result, c.error, c.metadata_update)
    /\ UNCHANGED <<watcherVars, busVars, auxVars>>

OnEnter ==
    /\ \E load_ok \in BOOLEAN : on_enter(load_ok)
    /\ UNCHANGED <<storeVars, auxVars>>

\* the event loop runs its next callback
LoopStep ==
    /\ ready # <<>>
    /\ IF Head(ready).kind = "_enqueue"
       THEN _enqueue(Head(ready).event)
       ELSE \E notify_ok \in BOOLEAN : _process_completion_events(notify_ok)
    /\ UNCHANGED <<storeVars, watcherVars, auxVars>>

BusNext ==
    \/ CreateTask
    \/ Finish
    \/ WatcherTick
    \/ EmitCompletion
    \/ OnEnter
    \/ LoopStep

BusSpec == Init /\ [][BusNext]_vars

\* the same with a watcher that may be started before on_enter, so that
\* events can reach the callback while the loop and the queue are missing
EarlyBusNext ==
    \/ BusNext
    \/ WatcherStart

\* the event loop keeps running its callbacks and the watcher thread keeps
\* emitting what its tick found
FairBusSpec ==
    /\ Init
    /\ [][EarlyBusNext]_vars
    /\ WF_vars(LoopStep)
    /\ WF_vars(EmitCompletion)

\* a tick whose load_tasks reads the file
ReadingTick ==
    /\ _run_cycle(TRUE)
    /\ UNCHANGED <<storeVars, busVars, auxVars>>

\* tasks end while the watcher that on_enter started reads the store at
\* each tick
ReportNext ==
    \/ CreateTask
    \/ Finish
    \/ ReadingTick
    \/ EmitCompletion
    \/ OnEnter
    \/ LoopStep

\* the timer keeps firing and the file stays readable, so a tick that reads
\* the file happens again and again; the watcher thread keeps emitting what
\* its tick found and the event loop keeps running its callbacks
FairReportSpec ==
    /\ Init
    /\ [][ReportNext]_vars
    /\ WF_vars(ReadingTick)
    /\ WF_vars(EmitCompletion)
    /\ WF_vars(LoopStep)

(***************************************************************************)
(* TaskManager called from two threads: each call takes TaskManager._lock, *)
(* loads the list with _load_raw_tasks, changes it and writes it back with *)
(* _write_raw_tasks, which truncates tasks.json and then writes the text.  *)
(* TaskRepository.load_tasks reads the same file without that lock.        *)
(***************************************************************************)
\* the calls the threads make: add_task with the id uuid4 gave, and on the
\* first task the end of it, HeadBelyaAgent's note, get_task; the cleanup
StoreCalls ==
    {[op |-> "add_task", task_id |-> t, status |-> None] : t \in TaskIds}
    \cup {[op |-> "update_task_status", task_id |-> "T1", status |-> "completed"],
          [op |-> "append_task_note", task_id |-> "T1", status |-> None],
          [op |-> "get_task", task_id |-> "T1", status |-> None],
          [op |-> "clear_completed_tasks", task_id |-> None, status |-> None]}

\* the list a call makes of the list it loaded
Applied(ts, c) ==
    CASE c.op = "add_task" ->
            Append(ts, NewRecord(c.task_id, "codex-belya", "fix bug", [prompt |-> "p"]))
      [] c.op = "update_task_status" ->
            [ts EXCEPT ![FirstIndex(ts, c.task_id)] =
                UpdatedRecord(@, c.status, "n", None, None, NoDict)]
      [] c.op = "append_task_note" ->
            [ts EXCEPT ![FirstIndex(ts, c.task_id)] = NotedRecord(@, WarningNote)]
      [] c.op = "clear_completed_tasks" -> ActiveTasks(ts)
      [] OTHER -> ts

\* whether the call raises KeyError on the list it loaded
RaisesNotFound(ts, c) ==
    /\ c.op \in {"update_task_status", "append_task_note"}
    /\ FirstIndex(ts, c.task_id) = 0

\* a lock that lets every thread in
LockFree_NoExclusion(holder) == TRUE

\* threading.Lock: whether acquire() succeeds
LockFree(holder) == holder = "none"

\* a thread starts a call; add_task has its id from uuid4 by now
Begin(th, c) ==
    /\ pc[th] = "idle"
    /\ c.op = "add_task" => c.task_id \notin issued
    /\ pc' = [pc EXCEPT ![th] = "waiting"]
    /\ call' = [call EXCEPT ![th] = c]
    /\ issued' = IF c.op = "add_task" THEN issued \cup {c.task_id} ELSE issued
    /\ UNCHANGED <<tasks, now, lastOp, lock, local, torn, observed>>

\* with self._lock: entered
Acquire(th) ==
    /\ pc[th] = "waiting"
    /\ LockFree(lock)
    /\ lock' = th
    /\ pc' = [pc EXCEPT ![th] = "locked"]
    /\ UNCHANGED <<storeVars, call, local, torn, observed>>

\* _load_raw_tasks: the list of the file, [] when the text does not parse
Load(th) ==
    /\ pc[th] = "locked"
    /\ local' = [local EXCEPT ![th] = IF torn THEN <<>> ELSE tasks]
    /\ observed' = IF torn THEN "torn" ELSE "whole"
    /\ pc' = [pc EXCEPT ![th] = "loaded"]
    /\ UNCHANGED <<storeVars, lock, call, torn>>

\* _write_raw_tasks, first half: write_text opens the file, which truncates it
Truncate(th) ==
    /\ pc[th] = "loaded"
    /\ call[th].op # "get_task"
    /\ ~RaisesNotFound(local[th], call[th])
    /\ Entries(Applied(local[th], call[th])) <= MaxEntries
    /\ torn' = TRUE
    /\ pc' = [pc EXCEPT ![th] = "writing"]
    /\ UNCHANGED <<storeVars, lock, call, local, observed>>

\* _write_raw_tasks, second half: the text of the new list is in the file
Flush(th) ==
    /\ pc[th] = "writing"
    /\ tasks' = Applied(local[th], call[th])
    /\ torn' = FALSE
    /\ pc' = [pc EXCEPT ![th] = "written"]
    /\ UNCHANGED <<now, issued, lastOp, lock, call, local, observed>>

\* the with block is left, by return or by KeyError, and the call ends
Release(th) ==
    /\ \/ pc[th] = "written"
       \/ pc[th] = "loaded" /\ call[th].op = "get_task"
       \/ pc[th] = "loaded" /\ RaisesNotFound(local[th], call[th])
    /\ lock' = "none"
    /\ lastOp' = Outcome(call[th].op,
                         IF pc[th] = "loaded" /\ RaisesNotFound(local[th], call[th])
                         THEN "NotFound" ELSE None,
                         IF call[th].op = "add_task" THEN call[th].task_id ELSE None)
    /\ pc' = [pc EXCEPT ![th] = "idle"]
    /\ call' = [call EXCEPT ![th] = NoCall]
    /\ local' = [local EXCEPT ![th] = <<>>]
    /\ UNCHANGED <<tasks, now, issued, torn, observed>>

\* TaskRepository.load_tasks on the watcher thread: json.load of the file as
\* it is, under the repository's own lock only
RepositoryLoad ==
    /\ observed' = IF torn THEN "torn" ELSE "whole"
    /\ UNCHANGED <<storeVars, lock, pc, call, local, torn>>

ThreadStep ==
    /\ UNCHANGED <<timerVars, dispatchVars, sessionVars, usageVars>>
    /\ \E th \in Threads :
        \/ \E c \in StoreCalls : Begin(th, c)
        \/ Acquire(th)
        \/ Load(th)
        \/ Truncate(th)
        \/ Flush(th)
        \/ Release(th)
    /\ UNCHANGED <<watcherVars, busVars>>

WatcherRead ==
    /\ RepositoryLoad
    /\ UNCHANGED <<timerVars, dispatchVars, sessionVars, usageVars>>
    /\ UNCHANGED <<watcherVars, busVars>>

LockNext ==
    \/ ThreadStep
    \/ WatcherRead

LockSpec == Init /\ [][LockNext]_vars

(***************************************************************************)
(* The threads of TaskWatcher: the thread that calls start() and stop(),   *)
(* and one thread per threading.Timer, which waits for the interval and    *)
(* then runs _run_cycle.  A step is one access to _timer, _stop_event or a *)
(* timer.                                                                  *)
(***************************************************************************)
\* whether a threading.Timer can be created within the bound
CanCreate == \E n \in TimerIds : timers[n] = "unused"

\* the next threading.Timer
NewTimer == CHOOSE n \in TimerIds : timers[n] = "unused" /\ \A k \in 1..(n - 1) : timers[k] # "unused"

\* Timer.cancel(): it stops a timer that has not fired
Cancelled(state) == IF state \in {"created", "pending"} THEN "cancelled" ELSE state

\* Timer.start(): the thread waits for the interval unless cancelled before
Started(state) == IF state = "created" THEN "pending" ELSE state

\* a _run_cycle without its try block: the exception ends the thread
AfterPoll_Unhandled(ok) == IF ok THEN "polled" ELSE "done"

\* _run_cycle after _poll: on to the finally block, by way of the except
\* clause when _poll raised
AfterPoll(ok) == IF ok THEN "polled" ELSE "raised"

\* start(), under the lock: return when _timer is set, else clear _stop_event
StartCall ==
    /\ callerPc = "idle"
    /\ stopped' = FALSE
    /\ IF wTimer # NoTimer
       THEN UNCHANGED <<stopEvent, callerPc>>
       ELSE stopEvent' = FALSE /\ callerPc' = "start_poll"
    /\ UNCHANGED <<wTimer, timers, made, callerTimer, errorsSeen>>

\* start(): the bootstrap pass, its exception given to _emit_error
StartPoll(ok) ==
    /\ callerPc = "start_poll"
    /\ errorsSeen' = IF ok THEN errorsSeen ELSE errorsSeen \cup {Bootstrap}
    /\ callerPc' = "start_check"
    /\ UNCHANGED <<wTimer, stopEvent, timers, made, callerTimer, stopped>>

\* start(): _schedule_next reads _stop_event and creates the timer
StartCheck ==
    /\ callerPc = "start_check"
    /\ IF stopEvent
       THEN callerPc' = "idle" /\ UNCHANGED <<timers, callerTimer>>
       ELSE /\ CanCreate
            /\ timers' = [timers EXCEPT ![NewTimer] = "created"]
            /\ callerTimer' = NewTimer
            /\ callerPc' = "start_assign"
    /\ UNCHANGED <<wTimer, stopEvent, made, stopped, errorsSeen>>

\* start(): _schedule_next stores the timer in _timer
StartAssign ==
    /\ callerPc = "start_assign"
    /\ wTimer' = callerTimer
    /\ callerPc' = "start_launch"
    /\ UNCHANGED <<stopEvent, timers, made, callerTimer, stopped, errorsSeen>>

\* start(): _schedule_next starts the timer
StartLaunch ==
    /\ callerPc = "start_launch"
    /\ timers' = [timers EXCEPT ![callerTimer] = Started(@)]
    /\ callerPc' = "idle"
    /\ callerTimer' = NoTimer
    /\ UNCHANGED <<wTimer, stopEvent, made, stopped, errorsSeen>>

\* stop(): _stop_event.set()
StopCall ==
    /\ callerPc = "idle"
    /\ stopEvent' = TRUE
    /\ callerPc' = "stop_lock"
    /\ UNCHANGED <<wTimer, timers, made, callerTimer, stopped, errorsSeen>>

\* stop(), under the lock: timer = self._timer; self._timer = None
StopLock ==
    /\ callerPc = "stop_lock"
    /\ callerTimer' = wTimer
    /\ wTimer' = NoTimer
    /\ callerPc' = "stop_cancel"
    /\ UNCHANGED <<stopEvent, timers, made, stopped, errorsSeen>>

\* stop(): timer.cancel() when there was a timer, and return
StopCancel ==
    /\ callerPc = "stop_cancel"
    /\ timers' = IF callerTimer # NoTimer
                 THEN [timers EXCEPT ![callerTimer] = Cancelled(@)] ELSE timers
    /\ callerPc' = "idle"
    /\ callerTimer' = NoTimer
    /\ stopped' = TRUE
    /\ UNCHANGED <<wTimer, stopEvent, made, errorsSeen>>

\* the interval of a timer is over: its thread calls _run_cycle
Fire(t) ==
    /\ timers[t] = "pending"
    /\ timers' = [timers EXCEPT ![t] = "polling"]
    /\ UNCHANGED <<wTimer, stopEvent, made, callerPc, callerTimer, stopped, errorsSeen>>

\* _run_cycle: _poll returns or raises
Poll(t, ok) ==
    /\ timers[t] = "polling"
    /\ timers' = [timers EXCEPT ![t] = AfterPoll(ok)]
    /\ UNCHANGED <<wTimer, stopEvent, made, callerPc, callerTimer, stopped, errorsSeen>>

\* _run_cycle: the except clause gives the exception to _emit_error, which
\* calls every error callback, or logs when there is none
EmitError(t) ==
    /\ timers[t] = "raised"
    /\ errorsSeen' = errorsSeen \cup {t}
    /\ timers' = [timers EXCEPT ![t] = "polled"]
    /\ UNCHANGED <<wTimer, stopEvent, made, callerPc, callerTimer, stopped>>

\* _run_cycle: the finally block sets _timer to None
Clear(t) ==
    /\ timers[t] = "polled"
    /\ wTimer' = NoTimer
    /\ timers' = [timers EXCEPT ![t] = "cleared"]
    /\ UNCHANGED <<stopEvent, made, callerPc, callerTimer, stopped, errorsSeen>>

\* _run_cycle: _schedule_next reads _stop_event and creates the timer
Check(t) ==
    /\ timers[t] = "cleared"
    /\ IF stopEvent
       THEN timers' = [timers EXCEPT ![t] = "done"] /\ UNCHANGED made
       ELSE /\ CanCreate
            /\ timers' = [timers EXCEPT ![t] = "scheduling", ![NewTimer] = "created"]
            /\ made' = [made EXCEPT ![t] = NewTimer]
    /\ UNCHANGED <<wTimer, stopEvent, callerPc, callerTimer, stopped, errorsSeen>>

\* _run_cycle: _schedule_next stores the timer in _timer
Assign(t) ==
    /\ timers[t] = "scheduling"
    /\ wTimer' = made[t]
    /\ timers' = [timers EXCEPT ![t] = "launching"]
    /\ UNCHANGED <<stopEvent, made, callerPc, callerTimer, stopped, errorsSeen>>

\* _run_cycle: _schedule_next starts the timer, and the thread ends
Launch(t) ==
    /\ timers[t] = "launching"
    /\ timers' = [timers EXCEPT ![t] = "done", ![made[t]] = Started(@)]
    /\ UNCHANGED <<wTimer, stopEvent, made, callerPc, callerTimer, stopped, errorsSeen>>

CallerStep ==
    /\ \/ StartCall
       \/ \E ok \in BOOLEAN : StartPoll(ok)
       \/ StartCheck
       \/ StartAssign
       \/ StartLaunch
       \/ StopCall
       \/ StopLock
       \/ StopCancel
    /\ UNCHANGED <<storeVars, watcherVars, busVars, lockVars, dispatchVars, sessionVars, usageVars>>

TimerStep ==
    /\ \E t \in TimerIds :
        \/ Fire(t)
        \/ \E ok \in BOOLEAN : Poll(t, ok)
        \/ EmitError(t)
        \/ Clear(t)
        \/ Check(t)
        \/ Assign(t)
        \/ Launch(t)
    /\ UNCHANGED <<storeVars, watcherVars, busVars, lockVars, dispatchVars, sessionVars, usageVars>>

TimerNext ==
    \/ CallerStep
    \/ TimerStep

TimerSpec == Init /\ [][TimerNext]_vars

(***************************************************************************)
(* The background Codex tasks.  send_task_to_Codex stores a task as        *)
(* in_progress and creates an asyncio task of _run_codex_task with         *)
(* _handle_background_completion as its done callback.  The coroutine has  *)
(* one await, the worker call; what it does once the call has ended is one *)
(* step of the event loop.  A cancellation is raised at the await as       *)
(* CancelledError, which "except Exception" does not catch.                *)
(***************************************************************************)
\* how the await of execute_directive ends: with a result, which may carry an
\* "error", or with an exception, whose str() may be empty
WorkerEndings ==
    {[how |-> "result", error |-> e] : e \in {None, "", "codex failed"}}
    \cup {[how |-> "raise", error |-> e] : e \in {"", "timeout"}}

\* how _extract_final_output and _post_process_codex_activity end after a
\* result without error: no warning, a usage warning, or an exception
PostEndings == {"none", "warning", "raise"}

\* the list update_task_status writes, the list as it is when it raises KeyError
Updated(ts, task_id, status, note, result, error, metadata_update) ==
    IF FirstIndex(ts, task_id) = 0 THEN ts
    ELSE [ts EXCEPT ![FirstIndex(ts, task_id)] =
            UpdatedRecord(@, status, note, result, error, metadata_update)]

\* the list append_task_note writes
Noted(ts, task_id, note) ==
    IF FirstIndex(ts, task_id) = 0 \/ ~Truthy(note) THEN ts
    ELSE [ts EXCEPT ![FirstIndex(ts, task_id)] = NotedRecord(@, note)]

\* how the worker call ended, as _run_codex_task tells the cases apart
EndingOf(w) ==
    IF w.how = "raise" THEN "raised"
    ELSE IF Truthy(w.error) THEN "reported"
    ELSE "returned"

\* the list _run_codex_task leaves once the worker call has ended
RunResult(ts, task_id, w, post) ==
    LET metadata_update == [raw_result_type |-> "dict"]
        unhandled(list, message) ==
            Updated(list, task_id, "failed",
                    "Unhandled exception while executing Codex task",
                    None, message, NoDict)
        completed ==
            Updated(ts, task_id, "completed", "Codex task finished successfully",
                    "output", None, metadata_update)
    IN  IF w.how = "raise" THEN unhandled(ts, w.error)
        ELSE IF Truthy(w.error)
        THEN Updated(ts, task_id, "failed", "Codex reported an error",
                     None, w.error, metadata_update)
        ELSE CASE post = "none" -> completed
               [] post = "warning" -> Noted(completed, task_id, WarningNote)
               [] post = "raise" -> unhandled(completed, "metrics failed")

\* a done callback that leaves a cancelled task as it is
BackgroundCompletion_IgnoresCancel(ts, task_id, state) ==
    IF state = "exception"
    THEN Updated(ts, task_id, "failed",
                 "Codex task raised an exception after completion",
                 None, "KeyError", NoDict)
    ELSE ts

\* the list _handle_background_completion leaves for an asyncio task that is
\* cancelled, ended with an exception, or returned
BackgroundCompletion(ts, task_id, state) ==
    IF state = "cancelled"
    THEN Updated(ts, task_id, "failed", "Codex task was cancelled unexpectedly",
                 None, "Task cancelled", NoDict)
    ELSE IF state = "exception"
    THEN Updated(ts, task_id, "failed",
                 "Codex task raised an exception after completion",
                 None, "KeyError", NoDict)
    ELSE ts

\* send_task_to_Codex: _create_task_entry stores the task under the id uuid4
\* gave and marks it in_progress, _dispatch_codex_task creates the asyncio task
send_task_to_Codex(uuid) ==
    /\ bg[uuid] = "none"
    /\ tasks' = Updated(Append(tasks, NewRecord(uuid, "codex-belya", "fix bug",
                                                [prompt |-> "p"])),
                        uuid, "in_progress", "Task dispatched to codex-belya",
                        None, None, NoDict)
    /\ issued' = issued \cup {uuid}
    /\ lastOp' = Outcome("update_task_status", None, None)
    /\ bg' = [bg EXCEPT ![uuid] = "created"]
    /\ UNCHANGED <<now, ended>>

\* the event loop starts the coroutine, which runs up to its await
_run_codex_task_starts(task_id) ==
    /\ bg[task_id] = "created"
    /\ bg' = [bg EXCEPT ![task_id] = "awaiting"]
    /\ UNCHANGED <<storeVars, ended>>

\* the event loop resumes _run_codex_task with the end of the worker call; the
\* asyncio task ends with an exception only if the handler's update raises
_run_codex_task(task_id, w, post) ==
    /\ bg[task_id] = "awaiting"
    /\ tasks' = RunResult(tasks, task_id, w, post)
    /\ lastOp' = Outcome(IF EndingOf(w) = "returned" /\ post = "warning"
                         THEN "append_task_note" ELSE "update_task_status",
                         IF FirstIndex(tasks, task_id) = 0 THEN "NotFound" ELSE None,
                         None)
    /\ ended' = [ended EXCEPT ![task_id] = EndingOf(w)]
    /\ bg' = [bg EXCEPT ![task_id] =
                IF FirstIndex(tasks, task_id) = 0 THEN "exception" ELSE "finished"]
    /\ UNCHANGED <<now, issued>>

\* the asyncio task is cancelled before the worker call has ended: the
\* coroutine is left by CancelledError and the task is marked cancelled
cancel(task_id) ==
    /\ bg[task_id] \in {"created", "awaiting"}
    /\ bg' = [bg EXCEPT ![task_id] = "cancelled"]
    /\ ended' = [ended EXCEPT ![task_id] = "cancelled"]
    /\ UNCHANGED storeVars

\* _handle_background_completion, the done callback the event loop runs
_handle_background_completion(task_id) ==
    /\ bg[task_id] \in {"finished", "cancelled", "exception"}
    /\ tasks' = BackgroundCompletion(tasks, task_id, bg[task_id])
    /\ lastOp' = IF bg[task_id] = "finished" THEN lastOp
                 ELSE Outcome("update_task_status",
                              IF FirstIndex(tasks, task_id) = 0 THEN "NotFound" ELSE None,
                              None)
    /\ bg' = [bg EXCEPT ![task_id] = "handled"]
    /\ UNCHANGED <<now, issued, ended>>

SendTaskToCodex ==
    /\ \E uuid \in TaskIds \ issued : send_task_to_Codex(uuid)
    /\ UNCHANGED <<watcherVars, busVars, lockVars, timerVars, sessionVars, usageVars>>

RunStarts ==
    /\ \E task_id \in TaskIds : _run_codex_task_starts(task_id)
    /\ UNCHANGED <<watcherVars, busVars, lockVars, timerVars, sessionVars, usageVars>>

WorkerEnds ==
    /\ \E task_id \in TaskIds, w \in WorkerEndings, post \in PostEndings :
        _run_codex_task(task_id, w, post)
    /\ UNCHANGED <<watcherVars, busVars, lockVars, timerVars, sessionVars, usageVars>>

CancelTask ==
    /\ \E task_id \in TaskIds : cancel(task_id)
    /\ UNCHANGED <<watcherVars, busVars, lockVars, timerVars, sessionVars, usageVars>>

DoneCallback(task_id) ==
    /\ _handle_background_completion(task_id)
    /\ UNCHANGED <<watcherVars, busVars, lockVars, timerVars, sessionVars, usageVars>>

DispatchNext ==
    \/ SendTaskToCodex
    \/ RunStarts
    \/ WorkerEnds
    \/ CancelTask
    \/ \E task_id \in TaskIds : DoneCallback(task_id)

DispatchSpec == Init /\ [][DispatchNext]_vars

\* the event loop runs each done callback it has scheduled
FairDispatchSpec ==
    /\ DispatchSpec
    /\ \A task_id \in TaskIds : WF_vars(DoneCallback(task_id))

(***************************************************************************)
(* SessionStore.  A row of the sessions table holds branch_name, the       *)
(* metadata document and the two timestamps; the metadata is held as the   *)
(* value json.loads gives, its sections "tasks", "metrics" and "settings". *)
(* A JSON value is a record of one field that names its Python type: int,  *)
(* str, null, list or dict; a dict's value is a function of its keys.      *)
(***************************************************************************)
JInt(n) == [int |-> n]

JStr(text) == [str |-> text]

JNull == [null |-> TRUE]

JList(items) == [list |-> items]

JDict(f) == [dict |-> f]

\* isinstance(value, dict)
IsDict(value) == DOMAIN value = {"dict"}

\* isinstance(value, type(default))
SameType(value, default) == DOMAIN value = DOMAIN default

\* {}
EmptyMap == [k \in {} |-> JNull]

\* dict.setdefault(key, default)
SetDefault(f, key, default) ==
    [k \in (DOMAIN f) \cup {key} |-> IF k \in DOMAIN f THEN f[k] ELSE default]

\* the document with one key set
WithKey(f, key, value) ==
    [k \in (DOMAIN f) \cup {key} |-> IF k = key THEN value ELSE f[k]]

\* _now_iso(): the clock at second precision
_now_iso == now

\* a usage window of _default_metrics
DefaultWindow ==
    [used |-> JInt(0), limit |-> JNull, remaining |-> JNull, last_updated |-> JNull]

\* the "warnings" document without a recorded level
DefaultWarnings == [five_hour |-> JList(<<>>), weekly |-> JList(<<>>)]

\* _default_metrics()
_default_metrics ==
    [token_usage |-> JDict([total_tokens |-> JInt(0),
                            five_hour |-> JDict(DefaultWindow),
                            weekly |-> JDict(DefaultWindow),
                            warnings |-> JDict(DefaultWarnings)]),
     last_task_tokens |-> JInt(0),
     rate_limits |-> JDict(EmptyMap)]

\* _default_settings()
_default_settings == [approval_policy |-> JStr("never"), model |-> JStr("default")]

\* _default_metadata()
_default_metadata ==
    [tasks |-> <<>>, metrics |-> _default_metrics, settings |-> _default_settings]

\* the metrics section after _ensure_metadata_defaults: a top-level key that is
\* missing or not of its default's type gets the default, then "warnings" is
\* made a dict with both windows
EnsureMetrics(metrics) ==
    LET top == [k \in (DOMAIN metrics) \cup (DOMAIN _default_metrics) |->
                   IF k \in DOMAIN _default_metrics
                      /\ (k \notin DOMAIN metrics \/ ~SameType(metrics[k], _default_metrics[k]))
                   THEN _default_metrics[k] ELSE metrics[k]]
        token_usage == SetDefault(top.token_usage.dict, "warnings", JDict(DefaultWarnings))
        warnings == IF IsDict(token_usage.warnings)
                    THEN token_usage.warnings.dict ELSE DefaultWarnings
        filled == SetDefault(SetDefault(warnings, "five_hour", JList(<<>>)),
                             "weekly", JList(<<>>))
    IN  WithKey(top, "token_usage", JDict(WithKey(token_usage, "warnings", JDict(filled))))

\* the settings section after _ensure_metadata_defaults
EnsureSettings(settings) ==
    SetDefault(SetDefault(settings, "approval_policy", JStr("never")),
               "model", JStr("default"))

\* _ensure_metadata_defaults(metadata); the stored "metrics" and "settings"
\* are dicts, every writer stores the sections it read through this function
_ensure_metadata_defaults(metadata) ==
    [tasks |-> metadata.tasks,
     metrics |-> EnsureMetrics(metadata.metrics),
     settings |-> EnsureSettings(metadata.settings)]

\* _deep_update(target, updates): dicts under a key of both are merged, any
\* other value of the update is stored under its key
RECURSIVE _deep_update(_, _)
_deep_update(target, updates) ==
    [k \in (DOMAIN target) \cup (DOMAIN updates) |->
        IF k \notin DOMAIN updates THEN target[k]
        ELSE IF k \in DOMAIN target /\ IsDict(target[k]) /\ IsDict(updates[k])
        THEN JDict(_deep_update(target[k].dict, updates[k].dict))
        ELSE updates[k]]

\* list.sort() of a list of ints
RECURSIVE Sorted(_)
Sorted(items) ==
    IF items = <<>> THEN <<>>
    ELSE LET low == CHOOSE i \in 1..Len(items) : \A j \in 1..Len(items) : items[i] <= items[j]
         IN  <<items[low]>> \o Sorted(SubSeq(items, 1, low - 1) \o SubSeq(items, low + 1, Len(items)))

\* threshold in levels
InList(items, x) == \E i \in 1..Len(items) : items[i] = x

\* a row of the sessions table
Row(branch_name, metadata, created_at, updated_at) ==
    [branch_name |-> branch_name, metadata |-> metadata,
     created_at |-> created_at, updated_at |-> updated_at]

\* a SessionStore call and what it returned
SessionCall(op, session_id, arg, ret) ==
    [op |-> op, session_id |-> session_id, arg |-> arg, ret |-> ret]

\* the metadata the read-modify-write calls start from: the defaults when
\* there is no row, the stored document with its defaults ensured otherwise
LoadedMetadata(rows, session_id) ==
    IF rows[session_id] = NoRow THEN _default_metadata
    ELSE _ensure_metadata_defaults(rows[session_id].metadata)

\* an UPDATE without the INSERT OR IGNORE before it
Upserted_UpdateOnly(rows, session_id, metadata) ==
    IF rows[session_id] = NoRow
    THEN rows
    ELSE [rows EXCEPT ![session_id] =
            Row(@.branch_name, metadata, @.created_at, _now_iso)]

\* INSERT OR IGNORE followed by UPDATE ... SET metadata, updated_at
Upserted(rows, session_id, metadata) ==
    IF rows[session_id] = NoRow
    THEN [rows EXCEPT ![session_id] = Row(None, metadata, _now_iso, _now_iso)]
    ELSE [rows EXCEPT ![session_id] =
            Row(@.branch_name, metadata, @.created_at, _now_iso)]

\* an ensure_session that stores the branch it is given, whatever it is
BranchToStore_AsGiven(branch_name, existing) == branch_name

\* branch_to_store = branch_name or existing["branch_name"]
BranchToStore(branch_name, existing) ==
    IF Truthy(branch_name) THEN branch_name ELSE existing.branch_name

\* ensure_session(session_id, branch_name); the record it returns is in ret
ensure_session(session_id, branch_name) ==
    LET existing == sessions[session_id]
        branch_to_store == BranchToStore(branch_name, existing)
    IN  IF existing # NoRow
        THEN /\ sessions' = [sessions EXCEPT ![session_id] =
                    Row(branch_to_store, @.metadata, @.created_at, _now_iso)]
             /\ sLast' = SessionCall("ensure_session", session_id, branch_name,
                    Row(branch_to_store, _ensure_metadata_defaults(existing.metadata),
                        existing.created_at, _now_iso))
        ELSE /\ sessions' = [sessions EXCEPT ![session_id] =
                    Row(branch_name, _default_metadata, _now_iso, _now_iso)]
             /\ sLast' = SessionCall("ensure_session", session_id, branch_name,
                    Row(branch_name, _default_metadata, _now_iso, _now_iso))

\* get_session(session_id): the row with its metadata defaults ensured, or None
get_session(session_id) ==
    /\ sLast' = SessionCall("get_session", session_id, None,
            IF sessions[session_id] = NoRow THEN NoRow
            ELSE [sessions[session_id] EXCEPT
                    !.metadata = _ensure_metadata_defaults(@)])
    /\ UNCHANGED sessions

\* update_branch(session_id, branch_name): an UPDATE, of no row when none is stored
update_branch(session_id, branch_name) ==
    /\ sessions' = IF sessions[session_id] = NoRow THEN sessions
                   ELSE [sessions EXCEPT ![session_id] =
                            Row(branch_name, @.metadata, @.created_at, _now_iso)]
    /\ sLast' = SessionCall("update_branch", session_id, branch_name, None)

\* the rows append_entry leaves
EntryAppended(rows, session_id, prompt, result) ==
    LET metadata == LoadedMetadata(rows, session_id)
        entry == [prompt |-> prompt, result |-> result, timestamp |-> _now_iso,
                  type |-> "task"]
    IN  Upserted(rows, session_id, [metadata EXCEPT !.tasks = Append(@, entry)])

\* append_entry(session_id, prompt=, result=, entry_type="task")
append_entry(session_id, prompt, result) ==
    /\ Len(LoadedMetadata(sessions, session_id).tasks) < MaxLog
    /\ sessions' = EntryAppended(sessions, session_id, prompt, result)
    /\ sLast' = SessionCall("append_entry", session_id, prompt, None)

\* the rows update_metrics leaves
MetricsUpdated(rows, session_id, metrics_update) ==
    LET metadata == LoadedMetadata(rows, session_id) IN
    Upserted(rows, session_id,
             [metadata EXCEPT !.metrics = _deep_update(@, metrics_update)])

\* update_metrics(session_id, metrics_update)
update_metrics(session_id, metrics_update) ==
    /\ sessions' = MetricsUpdated(sessions, session_id, metrics_update)
    /\ sLast' = SessionCall("update_metrics", session_id, metrics_update, None)

\* a record_usage_warning that appends the level without looking for it
Recorded_AlwaysAppended(levels, threshold) == Sorted(Append(levels, threshold))

\* if threshold not in levels: levels.append(threshold); levels.sort()
Recorded(levels, threshold) ==
    IF InList(levels, threshold) THEN levels ELSE Sorted(Append(levels, threshold))

\* the rows record_usage_warning leaves for a usage window whose stored
\* levels are a list
WarningRecorded(rows, session_id, window, threshold) ==
    LET metadata == LoadedMetadata(rows, session_id)
        token_usage == metadata.metrics.token_usage.dict
        warnings == token_usage.warnings.dict
        written == WithKey(metadata.metrics, "token_usage",
                       JDict(WithKey(token_usage, "warnings",
                           JDict(WithKey(warnings, window,
                               JList(Recorded(warnings[window].list, threshold)))))))
    IN  Upserted(rows, session_id, [metadata EXCEPT !.metrics = written])

\* record_usage_warning(session_id, window, threshold); "threshold not in levels"
\* raises TypeError, before anything is written, when levels is not a list
record_usage_warning(session_id, window, threshold) ==
    LET levels == LoadedMetadata(sessions, session_id)
                    .metrics.token_usage.dict.warnings.dict[window]
    IN  IF window \notin {"five_hour", "weekly"}
        THEN /\ sLast' = SessionCall("record_usage_warning", session_id,
                                     <<window, threshold>>, None)
             /\ UNCHANGED sessions
        ELSE IF DOMAIN levels # {"list"}
        THEN /\ sLast' = SessionCall("record_usage_warning", session_id,
                                     <<window, threshold>>, "TypeError")
             /\ UNCHANGED sessions
        ELSE /\ sessions' = WarningRecorded(sessions, session_id, window, threshold)
             /\ sLast' = SessionCall("record_usage_warning", session_id,
                                     <<window, threshold>>, None)

\* update_settings(session_id, settings_update): dict.update on the settings
update_settings(session_id, settings_update) ==
    LET metadata == LoadedMetadata(sessions, session_id) IN
    /\ sessions' = Upserted(sessions, session_id,
            [metadata EXCEPT !.settings =
                [k \in (DOMAIN @) \cup (DOMAIN settings_update) |->
                    IF k \in DOMAIN settings_update THEN settings_update[k] ELSE @[k]]])
    /\ sLast' = SessionCall("update_settings", session_id, settings_update, None)

\* a rename that does not look for a row under the new id
NewIdTaken_Never(new_session_id) == FALSE

\* SELECT 1 FROM sessions WHERE session_id = new_session_id
NewIdTaken(new_session_id) == sessions[new_session_id] # NoRow

\* rename_session(old_session_id, new_session_id)
rename_session(old_session_id, new_session_id) ==
    IF old_session_id = new_session_id
    THEN /\ sLast' = SessionCall("rename_session", old_session_id, new_session_id, TRUE)
         /\ UNCHANGED sessions
    ELSE IF NewIdTaken(new_session_id)
    THEN /\ sLast' = SessionCall("rename_session", old_session_id, new_session_id, FALSE)
         /\ UNCHANGED sessions
    ELSE /\ sessions' = IF sessions[old_session_id] = NoRow THEN sessions
                        ELSE [sessions EXCEPT
                                ![new_session_id] = [sessions[old_session_id] EXCEPT
                                                        !.updated_at = _now_iso],
                                ![old_session_id] = NoRow]
         /\ sLast' = SessionCall("rename_session", old_session_id, new_session_id,
                                 sessions[old_session_id] # NoRow)

(***************************************************************************)
(* The session store under its callers: every call is one transaction.     *)
(***************************************************************************)
\* the branch names of the calls: none, the empty name, a name
BranchArgs == {None, "", "main"}

\* a metrics update that gives the five-hour window no recorded warning
ClearedWarnings ==
    [token_usage |-> JDict([warnings |-> JDict([five_hour |-> JList(<<>>)])])]

\* the metrics updates of the session store's callers
SessionPatches == {ClearedWarnings}

\* the variables a session store call leaves alone
NotSessions ==
    <<storeVars, watcherVars, busVars, lockVars, timerVars, dispatchVars, usageVars>>

EnsureSession ==
    /\ \E id \in SessionIds, branch \in BranchArgs : ensure_session(id, branch)
    /\ UNCHANGED NotSessions

GetSession ==
    /\ \E id \in SessionIds : get_session(id)
    /\ UNCHANGED NotSessions

UpdateBranch ==
    /\ \E id \in SessionIds : update_branch(id, "main")
    /\ UNCHANGED NotSessions

AppendEntry ==
    /\ \E id \in SessionIds : append_entry(id, "prompt", "result")
    /\ UNCHANGED NotSessions

UpdateSettings ==
    /\ \E id \in SessionIds : update_settings(id, [model |-> JStr("o3")])
    /\ UNCHANGED NotSessions

UpdateMetrics ==
    /\ \E id \in SessionIds, patch \in SessionPatches : update_metrics(id, patch)
    /\ UNCHANGED NotSessions

RecordUsageWarning ==
    /\ \E id \in SessionIds : record_usage_warning(id, "five_hour", 80)
    /\ UNCHANGED NotSessions

RenameSession ==
    /\ \E old, new \in SessionIds : rename_session(old, new)
    /\ UNCHANGED NotSessions

SessionNext ==
    \/ EnsureSession
    \/ GetSession
    \/ UpdateBranch
    \/ AppendEntry
    \/ UpdateSettings
    \/ UpdateMetrics
    \/ RecordUsageWarning
    \/ RenameSession

SessionSpec == Init /\ [][SessionNext]_vars

\* the calls that leave the metrics alone, with the clock going on
SessionClockNext ==
    \/ EnsureSession
    \/ UpdateBranch
    \/ UpdateSettings
    \/ RenameSession
    \/ Advance

SessionClockSpec == Init /\ [][SessionClockNext]_vars

\* a metrics update with a used count for the five-hour window
UpdateUsed ==
    /\ \E id \in SessionIds :
        update_metrics(id, [token_usage |-> JDict([five_hour |-> JDict([used |-> JInt(10)])])])
    /\ UNCHANGED NotSessions

\* a warning at 80 recorded for a window, also one that is no usage window
RecordOneWarning ==
    /\ \E id \in SessionIds, window \in {"five_hour", "weekly", "daily"} :
        record_usage_warning(id, window, 80)
    /\ UNCHANGED NotSessions

\* the calls that write a session without asking whether it is stored
UpsertNext ==
    \/ AppendEntry
    \/ UpdateUsed
    \/ UpdateSettings
    \/ RecordOneWarning
    \/ UpdateBranch

UpsertSpec == Init /\ [][UpsertNext]_vars

(***************************************************************************)
(* The metrics document under update_metrics and the read path.            *)
(***************************************************************************)
\* {"token_usage": {"five_hour": {"used": 10}}}
FiveHourUsed == [token_usage |-> JDict([five_hour |-> JDict([used |-> JInt(10)])])]

\* {"token_usage": {"weekly": {"used": 5}}}
WeeklyUsed == [token_usage |-> JDict([weekly |-> JDict([used |-> JInt(5)])])]

\* {"last_task_tokens": null}
NullLastTask == [last_task_tokens |-> JNull]

\* {"token_usage": {"five_hour": null}}
NullWindow == [token_usage |-> JDict([five_hour |-> JNull])]

\* the metrics updates given to update_metrics
MergePatches == {FiveHourUsed, WeeklyUsed, NullLastTask, NullWindow}

MergeMetrics ==
    /\ \E id \in SessionIds, patch \in MergePatches : update_metrics(id, patch)
    /\ UNCHANGED NotSessions

MergeNext ==
    \/ MergeMetrics
    \/ GetSession

MergeSpec == Init /\ [][MergeNext]_vars

(***************************************************************************)
(* The warning lists under record_usage_warning alone.                     *)
(***************************************************************************)
\* the windows of the calls, one of them not a usage window
WindowArgs == {"five_hour", "weekly", "daily"}

\* utilization_warning_thresholds
Thresholds == {80, 90, 95}

RecordWarning ==
    /\ \E id \in SessionIds, window \in WindowArgs, threshold \in Thresholds :
        record_usage_warning(id, window, threshold)
    /\ UNCHANGED NotSessions

WarningNext == RecordWarning

WarningSpec == Init /\ [][WarningNext]_vars

(***************************************************************************)
(* SessionMetricsMixin: _post_process_codex_activity stores the metrics    *)
(* update and the activity entry, reads the stored warnings into the cache *)
(* and warns, for each window, on the first threshold of                   *)
(* utilization_warning_thresholds that the usage has reached and that the  *)
(* cache does not hold.                                                    *)
(***************************************************************************)
\* utilization_warning_thresholds, in the order of the tuple
ThresholdOrder == <<80, 90, 95>>

\* no warning for a window
NoLevel == 0

\* no metrics update: _prepare_metrics_update gave None or raised
NoPatch == [none |-> TRUE]

\* int(value) for the values of "used" and "limit"; 0 stands for the None of
\* a null or a missing key, which is as falsy as 0
IntOf(window_data, key) ==
    IF key \in DOMAIN window_data /\ DOMAIN window_data[key] = {"int"}
    THEN window_data[key].int ELSE 0

\* whether the window has a percent: a dict with limit and used that are
\* truthy ints and a limit above zero
HasPercent(window_data) ==
    /\ IsDict(window_data)
    /\ IntOf(window_data.dict, "limit") > 0
    /\ IntOf(window_data.dict, "used") # 0

\* percent >= threshold, percent being (used_int / limit_int) * 100
Reached(window_data, threshold) ==
    IntOf(window_data.dict, "used") * 100 >= threshold * IntOf(window_data.dict, "limit")

\* the positions of the thresholds the loop would warn on
Due(window_data, triggered_levels) ==
    {i \in 1..Len(ThresholdOrder) :
        /\ Reached(window_data, ThresholdOrder[i])
        /\ ~InList(triggered_levels, ThresholdOrder[i])}

\* a loop that goes on to the last threshold reached
FirstDue_Highest(window_data, triggered_levels) ==
    IF ~HasPercent(window_data) \/ Due(window_data, triggered_levels) = {} THEN NoLevel
    ELSE ThresholdOrder[CHOOSE i \in Due(window_data, triggered_levels) :
                            \A j \in Due(window_data, triggered_levels) : j <= i]

\* the threshold the loop over utilization_warning_thresholds breaks on
FirstDue(window_data, triggered_levels) ==
    IF ~HasPercent(window_data) \/ Due(window_data, triggered_levels) = {} THEN NoLevel
    ELSE ThresholdOrder[CHOOSE i \in Due(window_data, triggered_levels) :
                            \A j \in Due(window_data, triggered_levels) : i <= j]

\* token_usage.get(window_key, {}) of the record get_session returns
WindowData(rows, session_id, window) ==
    LET token_usage == LoadedMetadata(rows, session_id).metrics.token_usage.dict
    IN  IF window \in DOMAIN token_usage THEN token_usage[window] ELSE JDict(EmptyMap)

\* a cache entry that forgets what the store holds
Refreshed_Empty(rows, session_id) == NoLevels

\* _refresh_warning_cache: the cache entry read from the stored warnings
Refreshed(rows, session_id) ==
    LET warnings == LoadedMetadata(rows, session_id).metrics.token_usage.dict.warnings.dict
    IN  [five_hour |-> warnings.five_hour.list, weekly |-> warnings.weekly.list]

\* the rows after the warning of one window is recorded, if there is one
AfterWarning(rows, session_id, window, threshold) ==
    IF threshold = NoLevel THEN rows
    ELSE WarningRecorded(rows, session_id, window, threshold)

\* _post_process_codex_activity(prompt, output_text, codex_result) for the
\* session, with the metrics update _prepare_metrics_update gave and with
\* append_entry storing the entry or failing
_post_process_codex_activity(session_id, metrics_update, entry_ok) ==
    LET updated == IF metrics_update = NoPatch THEN sessions
                   ELSE MetricsUpdated(sessions, session_id, metrics_update)
        logged == IF entry_ok THEN EntryAppended(updated, session_id, "prompt", "result")
                  ELSE updated
        warned == Refreshed(logged, session_id)
        five_hour == FirstDue(WindowData(logged, session_id, "five_hour"), warned.five_hour)
        weekly == FirstDue(WindowData(logged, session_id, "weekly"), warned.weekly)
        recorded == AfterWarning(
                        AfterWarning(logged, session_id, "five_hour", five_hour),
                        session_id, "weekly", weekly)
    IN  /\ entry_ok => Len(LoadedMetadata(updated, session_id).tasks) < MaxLog
        /\ sLast' = SessionCall("_post_process_codex_activity", session_id,
                                metrics_update, None)
        /\ IF logged[session_id] = NoRow
           THEN /\ said' = [five_hour |-> NoLevel, weekly |-> NoLevel]
                /\ UNCHANGED <<sessions, cache>>
           ELSE /\ sessions' = recorded
                /\ said' = [five_hour |-> five_hour, weekly |-> weekly]
                /\ cache' = [cache EXCEPT ![session_id] =
                        [five_hour |-> IF five_hour = NoLevel THEN warned.five_hour
                                       ELSE Append(warned.five_hour, five_hour),
                         weekly |-> IF weekly = NoLevel THEN warned.weekly
                                    ELSE Append(warned.weekly, weekly)]]

\* {"token_usage": {window: {"used": used, "limit": 100}}}
UsageOf(window, used) ==
    [token_usage |-> JDict([w \in {window} |->
                        JDict([used |-> JInt(used), limit |-> JInt(100)])])]

\* the metrics updates of the activity: usage of 70, 85 and 96 of 100 in the
\* five-hour window, 91 of 100 in the weekly window, or none
UsagePatches ==
    {UsageOf("five_hour", used) : used \in {70, 85, 96}}
    \cup {UsageOf("weekly", 91), NoPatch}

\* CodexAgent.session.session_id as long as the session is not renamed
AgentSession == "S1"

PostProcess ==
    /\ \E patch \in UsagePatches, entry_ok \in BOOLEAN :
        _post_process_codex_activity(AgentSession, patch, entry_ok)
    /\ UNCHANGED <<storeVars, watcherVars, busVars, lockVars, timerVars, dispatchVars, activity,
                   agentSession>>

UsageNext == PostProcess

UsageSpec == Init /\ [][UsageNext]_vars

(***************************************************************************)
(* SessionMetricsMixin: the metrics update of an activity.  A text is its  *)
(* length; the worker payload is the numeric signals found in it by        *)
(* _find_numeric_by_terms, each an int or null.                            *)
(***************************************************************************)
\* the largest token count the model lets an activity store
MaxTokens == 8

\* _estimate_tokens(prompt, output_text): the non-empty texts are joined by
\* a blank, and the estimate is ceil(len / 4), 0 for an empty join
_estimate_tokens(prompt, output_text) ==
    LET combined == IF prompt > 0 /\ output_text > 0
                    THEN prompt + 1 + output_text ELSE prompt + output_text
    IN  IF combined = 0 THEN 0 ELSE (combined + 3) \div 4

\* whether the payload has a signal for the window
WindowSignalled(signal) ==
    signal.used # JNull \/ signal.limit # JNull \/ signal.remaining # JNull

\* _extract_usage_metrics(codex_result, prompt, output_text)
_extract_usage_metrics(codex_result, prompt, output_text) ==
    LET delta_tokens == IF codex_result.delta_tokens # JNull THEN codex_result.delta_tokens
                        ELSE JInt(_estimate_tokens(prompt, output_text))
        total_tokens == IF codex_result.total_tokens # JNull THEN codex_result.total_tokens
                        ELSE delta_tokens
        windows == {w \in {"five_hour", "weekly"} : WindowSignalled(codex_result[w])}
    IN  [k \in {"total_tokens", "delta_tokens"} \cup windows |->
            IF k = "total_tokens" THEN total_tokens
            ELSE IF k = "delta_tokens" THEN delta_tokens
            ELSE JDict([used |-> codex_result[k].used,
                        limit |-> codex_result[k].limit,
                        remaining |-> codex_result[k].remaining,
                        last_updated |-> JStr(_now_iso)])]

\* dict.get(key) of a JSON object: null for a missing key
Get(object, key) == IF key \in DOMAIN object THEN object[key] ELSE JNull

\* max(int(delta_tokens), 0)
DeltaInt(extracted) ==
    IF extracted.delta_tokens.int > 0 THEN extracted.delta_tokens.int ELSE 0

\* new_total_tokens: the extracted total if there is one, else the stored
\* total plus the delta
NewTotal(extracted, token_usage_existing) ==
    LET reported_total == Get(extracted, "total_tokens")
        previous_total == Get(token_usage_existing, "total_tokens")
    IN  IF reported_total # JNull THEN reported_total.int
        ELSE (IF DOMAIN previous_total = {"int"} THEN previous_total.int ELSE 0)
             + DeltaInt(extracted)

\* a fallback that leaves the stored used as it is
UsedFallback_Kept(used, delta_tokens_int) == used

\* window_update["used"] when no used was extracted and one is stored
UsedFallback(used, delta_tokens_int) ==
    IF DOMAIN used = {"int"} THEN JInt(used.int + delta_tokens_int) ELSE used

\* the window a metrics update carries: the stored window under the fields
\* extracted, "used" raised by the delta when none was extracted
MergedWindow(window_existing, window_extracted, delta_tokens_int) ==
    LET given == {f \in DOMAIN window_extracted : window_extracted[f] # JNull}
        raised == "used" \notin given /\ Get(window_existing, "used") # JNull
        window_update ==
            [f \in given \cup (IF raised THEN {"used"} ELSE {}) |->
                IF f \in given THEN window_extracted[f]
                ELSE UsedFallback(window_existing.used, delta_tokens_int)]
    IN  SetDefault(
            [f \in DOMAIN window_existing \cup DOMAIN window_update |->
                IF f \in DOMAIN window_update THEN window_update[f] ELSE window_existing[f]],
            "last_updated", JStr(_now_iso))

\* the dict a window key holds, {} if it holds none
WindowOf(object, window_key) ==
    IF IsDict(Get(object, window_key)) THEN object[window_key].dict ELSE EmptyMap

\* _prepare_metrics_update(session_id, prompt, output_text, codex_result):
\* the metrics_update it returns
_prepare_metrics_update(rows, session_id, prompt, output_text, codex_result) ==
    LET extracted == _extract_usage_metrics(codex_result, prompt, output_text)
        token_usage_existing ==
            IF rows[session_id] = NoRow THEN EmptyMap
            ELSE LoadedMetadata(rows, session_id).metrics.token_usage.dict
        delta_tokens_int == DeltaInt(extracted)
        updated == {w \in {"five_hour", "weekly"} :
                        \/ \E f \in DOMAIN WindowOf(extracted, w) :
                                WindowOf(extracted, w)[f] # JNull
                        \/ Get(WindowOf(token_usage_existing, w), "used") # JNull}
    IN  [token_usage |-> JDict(
            [k \in {"total_tokens"} \cup updated |->
                IF k = "total_tokens"
                THEN JInt(NewTotal(extracted, token_usage_existing))
                ELSE JDict(MergedWindow(WindowOf(token_usage_existing, k),
                                        WindowOf(extracted, k), delta_tokens_int))]),
         last_task_tokens |-> JInt(delta_tokens_int)]

\* no signal for a window
NoSignal == [used |-> JNull, limit |-> JNull, remaining |-> JNull]

\* the signals of a worker payload: a total or none; a delta, a negative one
\* or none; for the five-hour window used with limit, remaining alone, or none
Payloads ==
    [total_tokens : {JNull, JInt(7)},
     delta_tokens : {JNull, JInt(3), JInt(-2)},
     five_hour : {NoSignal,
                  [used |-> JInt(5), limit |-> JInt(20), remaining |-> JNull],
                  [used |-> JNull, limit |-> JNull, remaining |-> JInt(2)]},
     weekly : {NoSignal}]

\* the activities: the lengths of the prompt and of the output, both empty,
\* the prompt empty, or neither, with the payload of the worker; the texts
\* vary where the payload has no delta
Activities ==
    {a \in [prompt : {0, 3}, output_text : {0, 4}, codex_result : Payloads] :
        /\ a.prompt > 0 => a.output_text > 0
        /\ a.codex_result.delta_tokens # JNull => a.prompt > 0}

\* the counts a metrics update would store
Counts(metrics_update) ==
    {metrics_update.token_usage.dict.total_tokens.int}
    \cup {metrics_update.token_usage.dict[w].dict.used.int :
            w \in {w \in DOMAIN metrics_update.token_usage.dict \ {"total_tokens"} :
                    DOMAIN Get(metrics_update.token_usage.dict[w].dict, "used") = {"int"}}}

ProcessActivity ==
    /\ \E a \in Activities, entry_ok \in BOOLEAN :
        LET metrics_update == _prepare_metrics_update(sessions, AgentSession, a.prompt,
                                                      a.output_text, a.codex_result)
        IN  /\ \A n \in Counts(metrics_update) : n <= MaxTokens
            /\ _post_process_codex_activity(AgentSession, metrics_update, entry_ok)
            /\ activity' = a
    /\ UNCHANGED <<storeVars, watcherVars, busVars, lockVars, timerVars, dispatchVars,
                   agentSession>>

ActivityNext == ProcessActivity

ActivitySpec == Init /\ [][ActivityNext]_vars

(***************************************************************************)
(* The usage warnings of a session that is renamed between activities.     *)
(* rename_codex_session also renames the entries of sessions_ids_used and  *)
(* of the settings cache, which no warning depends on.                     *)
(***************************************************************************)
\* rename_codex_session(new_session_id): nothing for the active id, a stored
\* id, or an active session without a row; else the row, the agent's session
\* and the cache entry go to the new id and the rename is logged, which may fail
rename_codex_session(proposed_id, entry_ok) ==
    LET current_session_id == agentSession
        renamed == [sessions EXCEPT
                        ![proposed_id] = [sessions[current_session_id] EXCEPT
                                            !.updated_at = _now_iso],
                        ![current_session_id] = NoRow]
    IN  IF \/ proposed_id = current_session_id
           \/ sessions[proposed_id] # NoRow
           \/ sessions[current_session_id] = NoRow
        THEN /\ sLast' = SessionCall("rename_codex_session", current_session_id,
                                     proposed_id, FALSE)
             /\ UNCHANGED <<sessions, cache, said, activity, agentSession>>
        ELSE /\ entry_ok => Len(LoadedMetadata(renamed, proposed_id).tasks) < MaxLog
             /\ sessions' = IF entry_ok
                            THEN EntryAppended(renamed, proposed_id, "Session renamed", None)
                            ELSE renamed
             /\ agentSession' = proposed_id
             /\ cache' = [cache EXCEPT ![proposed_id] = cache[current_session_id],
                                       ![current_session_id] = NoLevels]
             /\ sLast' = SessionCall("rename_codex_session", current_session_id,
                                     proposed_id, TRUE)
             /\ UNCHANGED <<said, activity>>

\* an activity of the active session, whatever its id is by now
ActivityOfSession ==
    /\ \E patch \in UsagePatches, entry_ok \in BOOLEAN :
        _post_process_codex_activity(agentSession, patch, entry_ok)
    /\ UNCHANGED <<storeVars, watcherVars, busVars, lockVars, timerVars, dispatchVars, activity,
                   agentSession>>

RenameCodexSession ==
    /\ \E proposed_id \in SessionIds, entry_ok \in BOOLEAN :
        rename_codex_session(proposed_id, entry_ok)
    /\ UNCHANGED <<storeVars, watcherVars, busVars, lockVars, timerVars, dispatchVars>>

RenameUsageNext == ActivityOfSession \/ RenameCodexSession

RenameUsageSpec == Init /\ [][RenameUsageNext]_vars

(***************************************************************************)
(* The metadata of a task under add_task and update_task_status            *)
(* (MetadataSpec).  Each call of update_task_status carries a note of its  *)
(* own, so the history tells which patch a step applied.                   *)
(***************************************************************************)
\* the metadata add_task is given: none, or a prompt beside a nested map
MetadataArgs ==
    {NoDict, [prompt |-> "p", env |-> [os |-> "linux", shell |-> "bash"]]}

\* the calls of update_task_status with their metadata_update: none, an
\* empty one, a new key, a nested map for a stored key, and both at once
MetadataCalls ==
    {[note |-> "none", metadata_update |-> NoDict],
     [note |-> "empty", metadata_update |-> EmptyDict],
     [note |-> "type", metadata_update |-> [raw_result_type |-> "str"]],
     [note |-> "env", metadata_update |-> [env |-> [os |-> "mac"]]],
     [note |-> "both", metadata_update |->
        [env |-> [tty |-> "yes"], raw_result_type |-> "dict"]]}

AddWithMetadata ==
    /\ \E metadata \in MetadataArgs :
        \E uuid \in TaskIds \ issued :
            add_task("codex-belya", "fix bug", None, metadata, uuid)
    /\ UNCHANGED <<watcherVars, busVars, auxVars>>

UpdateMetadata ==
    /\ \E task_id \in TaskIds, c \in MetadataCalls :
        update_task_status(task_id, "in_progress", c.note, None, None, c.metadata_update)
    /\ UNCHANGED <<watcherVars, busVars, auxVars>>

MetadataNext == AddWithMetadata \/ UpdateMetadata

MetadataSpec == Init /\ [][MetadataNext]_vars

(***************************************************************************)
(* Properties of the watcher (WatcherSpec).                                *)
(***************************************************************************)
\* how many of the events are about this task
CountFor(events, task_id) ==
    Cardinality({i \in 1..Len(events) : events[i].task_id = task_id})

\* the history of the stored task, empty when there is none
HistoryOf(task_id) ==
    IF FirstIndex(tasks, task_id) = 0 THEN <<>>
    ELSE tasks[FirstIndex(tasks, task_id)].history

\* how often update_task_status has put the task into a terminal status: the
\* terminal entries of its history that append_task_note did not write
TerminalEntries(task_id) ==
    Cardinality({i \in 1..Len(HistoryOf(task_id)) :
        /\ HistoryOf(task_id)[i].status \in TERMINAL_STATUSES
        /\ HistoryOf(task_id)[i].note # WarningNote})

\* C1: under every interleaving of update_task_status and append_task_note
\* with the watcher's ticks, the watcher finds at most one completion event
\* per entry of a task into a terminal status; a task ended once, with the
\* usage warning appended after it, is reported at most once.
C1_OneEventPerTerminalEntry ==
    \A t \in TaskIds : CountFor(emitted \o handoff, t) <= TerminalEntries(t)

\* C2: a tick that reads the store finds exactly one event for each task whose
\* latest entry is terminal with a signature other than the recorded one, and
\* none for any other task; the signature read becomes the recorded one, so
\* ticks over an unchanged store find nothing more.
C2_TickEmitsOncePerNewSignature ==
    [][_run_cycle(TRUE) =>
        \A t \in TaskIds :
            /\ CountFor(handoff', t) =
                 IF StoredSignature(t) # NoSignature /\ StoredSignature(t) # lastSeen[t]
                 THEN 1 ELSE 0
            /\ lastSeen'[t] = StoredSignature(t)]_vars

\* a task not terminal at start was reported once by a tick, and its signature
\* is the recorded one
C2_Witness ==
    \E t \in TaskIds :
        /\ atStart[t] = NoSignature
        /\ StoredSignature(t) # NoSignature
        /\ lastSeen[t] = StoredSignature(t)
        /\ CountFor(emitted, t) = 1
        /\ handoff = <<>>

\* C3: a task terminal when the watcher starts gets no event from start(), and
\* none from a later tick unless its signature differs from the one it had at
\* the start, whatever became of the bootstrap pass.
C3_BootstrapLaw ==
    [][/\ (timer = "none" /\ timer' = "armed") =>
            (handoff' = handoff /\ emitted' = emitted)
       /\ \A t \in TaskIds :
            (atStart[t] # NoSignature /\ CountFor(handoff', t) > CountFor(handoff, t))
                => StoredSignature(t) # atStart[t]]_vars

(***************************************************************************)
(* Properties of the task store (Spec).                                    *)
(***************************************************************************)
\* C7: no update_task_status call changes the status of a record that is
\* completed or failed.
C7_TerminalStatusKept ==
    [][lastOp'.op = "update_task_status" =>
        \A i \in 1..Len(tasks) :
            tasks[i].status \in TERMINAL_STATUSES =>
                (i <= Len(tasks') /\ tasks'[i].status = tasks[i].status)]_vars

\* C8: update_task_status with a status outside the four valid names raises
\* InvalidStatus and leaves the store as it was, for an id that is stored and
\* for one that is not.
C8_InvalidStatusRejected ==
    [][\A task_id \in TaskIds, c \in UpdateCalls :
        (/\ c.status \notin {"not_started", "in_progress", "completed", "failed"}
         /\ update_task_status(task_id, c.status, c.note, c.result, c.error,
                               c.metadata_update))
        => (lastOp'.raised = "InvalidStatus" /\ tasks' = tasks)]_vars

\* an invalid status was refused while one of the two ids was stored
C8_Witness ==
    /\ lastOp = Outcome("update_task_status", "InvalidStatus", None)
    /\ Cardinality({tasks[i].id : i \in 1..Len(tasks)}) = 1

\* C9: an add_task that stores a record returns an id no earlier add_task
\* stored, get_task of that id gives a not_started record with a history of one
\* entry, and no two records of the store share an id.
C9_FreshId ==
    [][(/\ lastOp'.op = "add_task"
        /\ lastOp'.raised = None
        /\ Len(tasks') = Len(tasks) + 1)
       => /\ lastOp'.ret \notin issued
          /\ FirstRecord(tasks', lastOp'.ret).status = "not_started"
          /\ Len(FirstRecord(tasks', lastOp'.ret).history) = 1
          /\ \A i, j \in 1..Len(tasks') : i # j => tasks'[i].id # tasks'[j].id]_vars

\* C10: add_task with an empty agent or an empty description raises
\* InvalidArgument and leaves the store as it was.
C10_EmptyArgumentRejected ==
    [][\A agent \in AgentArgs, description \in DescriptionArgs, a \in AddArgs,
          uuid \in TaskIds \cup {None} :
        (/\ agent = "" \/ description = ""
         /\ add_task(agent, description, a.task_id, a.metadata, uuid))
        => (lastOp'.raised = "InvalidArgument" /\ tasks' = tasks /\ issued' = issued)]_vars

\* an add_task was refused while the store held a record
C10_Witness ==
    /\ lastOp = Outcome("add_task", "InvalidArgument", None)
    /\ tasks # <<>>

\* whether one sequence begins with the other
IsPrefix(short, long) ==
    Len(short) <= Len(long) /\ SubSeq(long, 1, Len(short)) = short

\* C11: update_task_status with a valid status and an id that is not stored
\* raises NotFound and leaves every record as it was (an invalid status is
\* refused first, with InvalidStatus, see C8).
C11_UnknownIdNotFound ==
    [][\A task_id \in TaskIds, c \in UpdateCalls :
        (/\ c.status \in {"not_started", "in_progress", "completed", "failed"}
         /\ task_id \notin StoredIds
         /\ update_task_status(task_id, c.status, c.note, c.result, c.error,
                               c.metadata_update))
        => (lastOp'.raised = "NotFound" /\ tasks' = tasks)]_vars

\* an update of an id that is not stored was refused while another was stored
C11_Witness ==
    /\ lastOp = Outcome("update_task_status", "NotFound", None)
    /\ tasks # <<>>

\* C12: append_task_note with an empty note returns and changes nothing; with
\* a note and an id that is not stored it raises NotFound and changes nothing;
\* with a note and a stored id it appends one entry carrying the note to the
\* history of that task and keeps its status, result, error and metadata, and
\* every other record.
C12_AppendNoteFrame ==
    [][\A task_id \in TaskIds, note \in {"", WarningNote} :
        append_task_note(task_id, note) =>
            IF note = ""
            THEN lastOp'.raised = None /\ tasks' = tasks
            ELSE IF task_id \notin StoredIds
            THEN lastOp'.raised = "NotFound" /\ tasks' = tasks
            ELSE LET i == FirstIndex(tasks, task_id) IN
                /\ lastOp'.raised = None
                /\ Len(tasks') = Len(tasks)
                /\ \A j \in 1..Len(tasks) : j # i => tasks'[j] = tasks[j]
                /\ Len(tasks'[i].history) = Len(tasks[i].history) + 1
                /\ IsPrefix(tasks[i].history, tasks'[i].history)
                /\ tasks'[i].history[Len(tasks'[i].history)].note = note
                /\ tasks'[i].status = tasks[i].status
                /\ tasks'[i].result = tasks[i].result
                /\ tasks'[i].error = tasks[i].error
                /\ tasks'[i].metadata = tasks[i].metadata]_vars

\* a note was appended to a task that has a result and metadata
C12_Witness ==
    /\ lastOp = Outcome("append_task_note", None, None)
    /\ \E i \in 1..Len(tasks) :
        /\ tasks[i].history[Len(tasks[i].history)].note = WarningNote
        /\ tasks[i].result = "done"
        /\ tasks[i].metadata # EmptyDict

\* C13: add_task, update_task_status and append_task_note keep every record
\* and every history entry in place and only append; clear_completed_tasks
\* keeps the records it leaves as they were; a successful update_task_status
\* makes the history one longer, its latest entry and the record carry the
\* requested status, and a result given is the record's result.
C13_HistoryAppendOnly ==
    [][/\ lastOp'.op \in {"add_task", "update_task_status", "append_task_note"} =>
            /\ Len(tasks') >= Len(tasks)
            /\ \A i \in 1..Len(tasks) : IsPrefix(tasks[i].history, tasks'[i].history)
       /\ lastOp'.op = "clear_completed_tasks" =>
            \A j \in 1..Len(tasks') : \E i \in 1..Len(tasks) : tasks'[j] = tasks[i]
       /\ \A task_id \in StoredIds, c \in UpdateCalls :
            (/\ c.status \in {"not_started", "in_progress", "completed", "failed"}
             /\ update_task_status(task_id, c.status, c.note, c.result, c.error,
                                   c.metadata_update))
            => LET i == FirstIndex(tasks, task_id) IN
                /\ Len(tasks'[i].history) = Len(tasks[i].history) + 1
                /\ tasks'[i].history[Len(tasks'[i].history)].status = c.status
                /\ tasks'[i].status = c.status
                /\ c.result # None => tasks'[i].result = c.result]_vars

\* add_task, in_progress, completed with a result: three entries
C13_Witness ==
    \E i \in 1..Len(tasks) :
        /\ Len(tasks[i].history) = 3
        /\ tasks[i].history[1].status = "not_started"
        /\ tasks[i].history[2].status = "in_progress"
        /\ tasks[i].history[3].status = "completed"
        /\ tasks[i].status = "completed"
        /\ tasks[i].result = "done"

(***************************************************************************)
(* Properties of the store under two threads (LockSpec).                   *)
(***************************************************************************)
\* the threads inside the with block
InLock == {th \in Threads : pc[th] \in {"locked", "loaded", "writing", "written"}}

\* C14: the calls of two threads on one TaskManager are serialized: one
\* thread at most is inside the lock, and what a call writes is that call
\* applied to the store as it stands at the write, so the store is the result
\* of the calls in the order of their writes and no update is lost.
C14_CallsSerialized ==
    [][/\ Cardinality(InLock) <= 1
       /\ \A th \in Threads :
            (pc[th] = "writing" /\ pc'[th] = "written")
                => tasks' = Applied(tasks, call[th])]_vars

\* an update of a task is written while the other thread waits with a note
\* for the same task
C14_Witness ==
    \E th \in Threads, other \in Threads :
        /\ pc[th] = "written"
        /\ call[th].op = "update_task_status"
        /\ pc[other] = "waiting"
        /\ call[other].op = "append_task_note"
        /\ call[other].task_id = call[th].task_id

\* C15: every read of tasks.json, by a TaskManager call or by the watcher's
\* load_tasks, sees the whole text of the store before or after a write, never
\* the file of a write in progress.
C15_ReadsSeeWholeStore == observed = "whole"

(***************************************************************************)
(* Properties of the watcher's threads (TimerSpec).                        *)
(***************************************************************************)
\* the timers that wait, or whose thread is on its way to _schedule_next
Chain ==
    {t \in TimerIds :
        timers[t] \in {"created", "pending", "polling", "raised", "polled", "cleared"}}

\* after a start() that found no timer and with no stop() since, a timer
\* waits or a tick is on its way to the next timer
ChainKept ==
    (timers[1] # "unused" /\ ~stopEvent /\ callerPc = "idle") => Chain # {}

\* C16: the exception of a tick's _poll is given to _emit_error and the
\* thread goes on to the finally block and _schedule_next; the chain of ticks
\* ends only when stop() was called.
C16_FailingTickGoesOn ==
    [][/\ \A t \in TimerIds :
            timers[t] = "raised" =>
                \/ timers'[t] = "raised"
                \/ timers'[t] = "polled" /\ errorsSeen' = errorsSeen \cup {t}
       /\ ChainKept']_vars

\* a tick failed, its exception was reported, and the timer it scheduled has
\* fired
C16_Witness ==
    \E t \in TimerIds :
        /\ t \in errorsSeen
        /\ timers[t] = "done"
        /\ made[t] # NoTimer
        /\ timers[made[t]] = "polling"
        /\ ~stopEvent

\* C17: once stop() has returned and start() was not called again, no timer
\* fires, whatever a tick in flight and its _schedule_next were doing.
C17_NoTickAfterStop ==
    [][\A t \in TimerIds :
        (stopped /\ timers[t] = "pending") => timers'[t] # "polling"]_vars

\* C18: start() goes on to its bootstrap pass only when no timer waits and no
\* tick is in flight, so that one chain of ticks exists at most; stop() on a
\* watcher that is stopped and has no chain changes neither _timer nor
\* _stop_event nor a timer.
C18_StartStopIdempotent ==
    [][/\ (callerPc = "idle" /\ callerPc' = "start_poll") => Chain = {}
       /\ Cardinality(Chain') <= 1
       /\ (stopped /\ Chain = {} /\ wTimer = NoTimer /\ stopEvent
                /\ callerPc' \in {"stop_lock", "stop_cancel"})
           => UNCHANGED <<wTimer, stopEvent, timers>>]_vars

(***************************************************************************)
(* Properties of the completion queue (BusSpec, FairBusSpec).              *)
(***************************************************************************)
\* the events of a sequence of batches, in order
RECURSIVE Flatten(_)
Flatten(batches) ==
    IF batches = <<>> THEN <<>> ELSE Head(batches) \o Flatten(Tail(batches))

\* how many events the first batches hold, for each number of batches
BatchEnds(batches) ==
    {Len(Flatten(SubSeq(batches, 1, i))) : i \in 1..Len(batches)}

\* the _enqueue callbacks the loop has still to run
EnqueueCallbacks == SelectSeq(ready, LAMBDA c : c.kind = "_enqueue")

\* how many of the emitted events have been put on the queue
QueuedSoFar == Len(emitted) - Len(pending) - Len(EnqueueCallbacks)

\* C4: the events one tick finds for two tasks reach the notifier in one
\* batch under every interleaving of the watcher thread with the event loop:
\* no batch ends between them.
C4_OneBatchPerTick ==
    \A n \in glued : n \notin BatchEnds(notified)

\* C5: the events put on the queue are, in their order, the events of the
\* batches notified so far followed by the queued ones, so each is notified in
\* one batch only; no batch is empty; the consumer waits only on an empty
\* queue.
C5_EachEventInOneBatch ==
    /\ QueuedSoFar >= 0
    /\ Flatten(notified) \o queue = SubSeq(emitted, 1, QueuedSoFar)
    /\ \A i \in 1..Len(notified) : notified[i] # <<>>
    /\ consumer = "waiting" => queue = <<>>

\* the notifier was called twice, once with a batch of two events
C5_Witness ==
    /\ Len(notified) = 2
    /\ \E i \in 1..Len(notified) : Len(notified[i]) = 2

C19_NotifierFailureSurvived ==
    /\ [](failures # {} =>
            /\ consumer \in {"scheduled", "waiting"}
            /\ Flatten(notified) \o queue = SubSeq(emitted, 1, QueuedSoFar))
    /\ \A n \in 1..MaxEntries :
        (failures # {} /\ Len(emitted) >= n /\ consumer # "none")
            ~> (/\ Len(Flatten(notified)) >= n
                /\ SubSeq(Flatten(notified), 1, n) = SubSeq(emitted, 1, n))

\* the notifier raised for a batch and was called with a later one
C19_Witness ==
    \E i \in failures : i < Len(notified)

(***************************************************************************)
(* Properties of the background Codex tasks.                               *)
(***************************************************************************)
\* the task is stored with a terminal status
EndedTerminal(task_id) ==
    \E i \in 1..Len(tasks) :
        /\ tasks[i].id = task_id
        /\ tasks[i].status \in {"completed", "failed"}

\* the task is stored as failed with its error field set
FailedWithError(task_id) ==
    \E i \in 1..Len(tasks) :
        /\ tasks[i].id = task_id
        /\ tasks[i].status = "failed"
        /\ tasks[i].error # None

\* C20: once the worker call of a dispatched task has ended, by a return, a
\* reported error, an exception or a cancellation, the task gets a terminal
\* status and keeps one: at once when the call returned, reported or raised,
\* by the done callback when it was cancelled; and when it reported an error,
\* raised or was cancelled, the status is failed and the error field is set.
C20_EndedTaskIsTerminal ==
    /\ \A t \in TaskIds : (ended[t] # None) ~> []EndedTerminal(t)
    /\ [](\A t \in TaskIds :
            (ended[t] # None /\ (ended[t] # "cancelled" \/ bg[t] = "handled")) =>
                /\ EndedTerminal(t)
                /\ ended[t] \in {"reported", "raised", "cancelled"} => FailedWithError(t))

\* the worker calls of two tasks ended, the one by a cancellation and the
\* other by an exception, and both done callbacks have run
C20_Witness ==
    \E t, u \in TaskIds :
        /\ ended[t] = "cancelled" /\ bg[t] = "handled" /\ FailedWithError(t)
        /\ ended[u] = "raised" /\ bg[u] = "handled" /\ FailedWithError(u)

(***************************************************************************)
(* Properties of the session store (SessionClockSpec, SessionSpec).        *)
(***************************************************************************)
\* the step is a SessionStore call of this name
SessionStep(op) ==
    /\ sLast'.op = op
    /\ sLast' # sLast \/ sessions' # sessions

\* C21: rename_session(old, new) with old other than new and a row stored
\* under new returns False and leaves every row as it was.
C21_RenameOntoStoredIdRefused ==
    [][(/\ SessionStep("rename_session")
        /\ sLast'.session_id # sLast'.arg
        /\ sessions[sLast'.arg] # NoRow)
       => (sLast'.ret = FALSE /\ sessions' = sessions)]_vars

\* a rename was refused with rows stored under both ids that differ
C21_Witness ==
    /\ sLast.op = "rename_session"
    /\ sLast.session_id # sLast.arg
    /\ sLast.ret = FALSE
    /\ sessions[sLast.session_id] # NoRow
    /\ sessions[sLast.arg] # NoRow
    /\ sessions[sLast.session_id] # sessions[sLast.arg]

\* C22: rename_session(old, new) with a row under old and none under new
\* returns True, leaves no row under old and a row under new with old's
\* branch_name, created_at and metadata, and changes no other row; and
\* whenever it returns True a row is stored under new afterwards.
C22_RenameRepointsTheRow ==
    [][SessionStep("rename_session") =>
        LET old == sLast'.session_id
            new == sLast'.arg
        IN  /\ (sessions[old] # NoRow /\ sessions[new] = NoRow) =>
                /\ sLast'.ret = TRUE
                /\ sessions'[old] = NoRow
                /\ sessions'[new] # NoRow
                /\ sessions'[new].branch_name = sessions[old].branch_name
                /\ sessions'[new].created_at = sessions[old].created_at
                /\ sessions'[new].metadata = sessions[old].metadata
                /\ \A id \in SessionIds \ {old, new} : sessions'[id] = sessions[id]
            /\ sLast'.ret = TRUE => sessions'[new] # NoRow]_vars

\* C27: ensure_session(id, branch) on an id without row stores a row with the
\* default metadata; on an id with a row it keeps created_at and the stored
\* metadata, sets updated_at, stores the branch when one is given and keeps
\* the stored branch when None is given; no other row changes.
C27_EnsureSessionFrame ==
    [][SessionStep("ensure_session") =>
        LET id == sLast'.session_id
            branch == sLast'.arg
        IN  /\ \A other \in SessionIds \ {id} : sessions'[other] = sessions[other]
            /\ sessions'[id] # NoRow
            /\ sessions'[id].updated_at = now
            /\ sessions[id] = NoRow =>
                /\ sessions'[id].metadata = _default_metadata
                /\ sessions'[id].branch_name = branch
                /\ sessions'[id].created_at = now
            /\ sessions[id] # NoRow =>
                /\ sessions'[id].metadata = sessions[id].metadata
                /\ sessions'[id].created_at = sessions[id].created_at
                /\ sessions'[id].branch_name \in {branch, sessions[id].branch_name}
                /\ branch = None => sessions'[id].branch_name = sessions[id].branch_name
                /\ (branch # None /\ branch # "") => sessions'[id].branch_name = branch]_vars

\* ensure_session was called without branch on a row that has a branch, other
\* settings than the defaults and an earlier created_at, and the row kept them
C27_Witness ==
    /\ sLast.op = "ensure_session"
    /\ sLast.arg = None
    /\ sessions[sLast.session_id] # NoRow
    /\ sessions[sLast.session_id].branch_name = "main"
    /\ sessions[sLast.session_id].metadata.settings # _default_settings
    /\ sessions[sLast.session_id].created_at < sessions[sLast.session_id].updated_at
    /\ sessions[sLast.session_id].updated_at = now

(***************************************************************************)
(* Properties of the metrics document (MergeSpec).                         *)
(***************************************************************************)
\* result is the deep merge of patch into stored: a key of the patch has the
\* patch's value, two maps under one key being merged key by key, and a key
\* of the stored document that the patch does not have keeps its value
RECURSIVE IsDeepMerge(_, _, _)
IsDeepMerge(stored, patch, result) ==
    /\ DOMAIN result = (DOMAIN stored) \cup (DOMAIN patch)
    /\ \A k \in (DOMAIN stored) \ (DOMAIN patch) : result[k] = stored[k]
    /\ \A k \in DOMAIN patch :
        IF k \in DOMAIN stored /\ DOMAIN stored[k] = {"dict"} /\ DOMAIN patch[k] = {"dict"}
        THEN /\ DOMAIN result[k] = {"dict"}
             /\ IsDeepMerge(stored[k].dict, patch[k].dict, result[k].dict)
        ELSE result[k] = patch[k]

\* C23: update_metrics is a deep merge of the patch into the stored metrics
\* document: for every stored document and every patch, the document stored
\* afterwards has the patch's value under each key path of the patch and the
\* stored value under every key the patch does not mention, at every depth.
C23_UpdateMetricsDeepMerge ==
    [][(SessionStep("update_metrics") /\ sessions[sLast'.session_id] # NoRow) =>
        IsDeepMerge(sessions[sLast'.session_id].metadata.metrics,
                    sLast'.arg,
                    sessions'[sLast'.session_id].metadata.metrics)]_vars

\* a usage window of the canonical metrics document
CanonicalWindow(window) ==
    /\ DOMAIN window = {"dict"}
    /\ {"used", "limit", "remaining", "last_updated"} \subseteq DOMAIN window.dict

\* the canonical metrics document, fully populated
Canonical(metrics) ==
    /\ {"token_usage", "last_task_tokens", "rate_limits"} \subseteq DOMAIN metrics
    /\ DOMAIN metrics.token_usage = {"dict"}
    /\ {"total_tokens", "five_hour", "weekly", "warnings"}
            \subseteq DOMAIN metrics.token_usage.dict
    /\ CanonicalWindow(metrics.token_usage.dict.five_hour)
    /\ CanonicalWindow(metrics.token_usage.dict.weekly)
    /\ DOMAIN metrics.token_usage.dict.warnings = {"dict"}
    /\ {"five_hour", "weekly"} \subseteq DOMAIN metrics.token_usage.dict.warnings.dict
    /\ DOMAIN metrics.token_usage.dict.warnings.dict.five_hour = {"list"}
    /\ DOMAIN metrics.token_usage.dict.warnings.dict.weekly = {"list"}

\* C26: every record get_session returns, whatever update_metrics patches made
\* the stored document, has the canonical metrics document fully populated.
C26_ReadsAreCanonical ==
    (sLast.op = "get_session" /\ sLast.ret # NoRow) =>
        Canonical(sLast.ret.metadata.metrics)

(***************************************************************************)
(* Properties of the warning lists (WarningSpec, SessionSpec).             *)
(***************************************************************************)
\* the stored warning list of a window, the empty list where no row is stored
StoredLevels(rows, id, window) ==
    IF rows[id] = NoRow THEN <<>>
    ELSE rows[id].metadata.metrics.token_usage.dict.warnings.dict[window].list

\* the thresholds of a list
Levels(items) == {items[i] : i \in 1..Len(items)}

\* the list is sorted ascending and has no threshold twice
SortedSet(items) == \A i, j \in 1..Len(items) : i < j => items[i] < items[j]

\* C24: record_usage_warning on a usage window leaves the window's list sorted
\* ascending with each threshold recorded so far in it once, and leaves the
\* list as it is when the threshold is already in it, so that a second call
\* gives the list of the first; on another window it changes nothing.
C24_WarningListSortedSet ==
    [][SessionStep("record_usage_warning") =>
        LET id == sLast'.session_id
            window == sLast'.arg[1]
            threshold == sLast'.arg[2]
        IN  IF window \in {"five_hour", "weekly"}
            THEN /\ SortedSet(StoredLevels(sessions', id, window))
                 /\ Levels(StoredLevels(sessions', id, window))
                        = Levels(StoredLevels(sessions, id, window)) \cup {threshold}
                 /\ threshold \in Levels(StoredLevels(sessions, id, window)) =>
                        StoredLevels(sessions', id, window)
                            = StoredLevels(sessions, id, window)
                 /\ \A other \in {"five_hour", "weekly"} \ {window} :
                        StoredLevels(sessions', id, other) = StoredLevels(sessions, id, other)
            ELSE sessions' = sessions]_vars

\* threshold 80 was recorded for a window whose list holds 80, 90 and 95
C24_Witness ==
    /\ sLast.op = "record_usage_warning"
    /\ sLast.arg[1] = "weekly"
    /\ sLast.arg[2] = 80
    /\ StoredLevels(sessions, sLast.session_id, "weekly") = <<80, 90, 95>>

\* the list has no threshold twice
NoRepeat(items) == \A i, j \in 1..Len(items) : i < j => items[i] # items[j]

\* C25: over the calls of the session store on a session, the stored lists
\* warnings.five_hour and warnings.weekly never get shorter and never hold a
\* threshold twice.
C25_WarningListsOnlyGrow ==
    [][\A id \in SessionIds, window \in {"five_hour", "weekly"} :
        (sessions[id] # NoRow /\ sessions'[id] # NoRow) =>
            /\ Len(StoredLevels(sessions', id, window))
                    >= Len(StoredLevels(sessions, id, window))
            /\ NoRepeat(StoredLevels(sessions', id, window))]_vars

(***************************************************************************)
(* Properties of the usage warnings (UsageSpec).                           *)
(***************************************************************************)
\* the thresholds a window's stored usage has reached and that are not in
\* the given list: percent = used / limit * 100 >= threshold
Unrecorded(rows, id, window, levels) ==
    LET data == rows[id].metadata.metrics.token_usage.dict[window] IN
    {t \in Thresholds :
        /\ DOMAIN data = {"dict"}
        /\ DOMAIN data.dict.used = {"int"} /\ DOMAIN data.dict.limit = {"int"}
        /\ data.dict.limit.int > 0
        /\ data.dict.used.int * 100 >= t * data.dict.limit.int
        /\ t \notin Levels(levels)}

Kept(ts) == {i \in 1..Len(ts) : ts[i].status # "completed"}

\* C29: a step that is not the bulk cleanup keeps every stored record in its
\* place; the bulk cleanup leaves exactly the records whose status is not
\* completed, each unchanged and in the order they had.
C29_OnlyCleanupRemovesCompleted ==
    [][IF lastOp'.op = "clear_completed_tasks"
       THEN /\ Len(tasks') = Cardinality(Kept(tasks))
            /\ \A i \in Kept(tasks) :
                tasks'[Cardinality({j \in Kept(tasks) : j <= i})] = tasks[i]
       ELSE /\ Len(tasks') >= Len(tasks)
            /\ \A i \in 1..Len(tasks) : tasks'[i].id = tasks[i].id]_vars

\* the cleanup has removed a completed record and has left a failed one
C29_Witness ==
    /\ lastOp.op = "clear_completed_tasks"
    /\ issued \ {tasks[i].id : i \in 1..Len(tasks)} # {}
    /\ \E i \in 1..Len(tasks) : tasks[i].status = "failed"

\* C30: an update_task_status whose status is not completed leaves the
\* result of the record as it was, and one whose status is not failed leaves
\* its error as it was.
C30_ResultAndErrorSetByTheirStatus ==
    [][(lastOp'.op = "update_task_status" /\ lastOp'.raised = None /\ tasks' # tasks) =>
        \A i \in 1..Len(tasks) :
            /\ tasks'[i].status # "completed" => tasks'[i].result = tasks[i].result
            /\ tasks'[i].status # "failed" => tasks'[i].error = tasks[i].error]_vars

(***************************************************************************)
(* Properties of the task metadata (MetadataSpec).                         *)
(***************************************************************************)
\* the metadata_update of the call that wrote the last history entry
PatchOf(record) ==
    (CHOOSE c \in MetadataCalls : c.note = record.history[Len(record.history)].note).metadata_update

\* C31: an update_task_status with a metadata patch gives every top-level key
\* of the patch the patch's value, a nested map included, whole, and keeps
\* the value of every metadata key that the patch does not name.
C31_MetadataShallowMerge ==
    [][(lastOp'.op = "update_task_status" /\ lastOp'.raised = None /\ tasks' # tasks) =>
        \A i \in 1..Len(tasks) : tasks'[i] # tasks[i] =>
            LET patch == PatchOf(tasks'[i])
                before == tasks[i].metadata
                after == tasks'[i].metadata
            IN  IF patch = NoDict THEN after = before
                ELSE /\ DOMAIN after = DOMAIN before \cup DOMAIN patch
                     /\ \A k \in DOMAIN patch : after[k] = patch[k]
                     /\ \A k \in DOMAIN before \ DOMAIN patch : after[k] = before[k]]_vars

\* a patch with a nested map for a stored key was applied: the stored map is
\* the patch's, its former keys gone, and the prompt is kept
C31_Witness ==
    /\ lastOp.op = "update_task_status"
    /\ \E i \in 1..Len(tasks) :
        /\ tasks[i].history[Len(tasks[i].history)].note = "env"
        /\ DOMAIN tasks[i].metadata = {"prompt", "env"}
        /\ tasks[i].metadata.env = [os |-> "mac"]
        /\ tasks[i].metadata.prompt = "p"

(***************************************************************************)
(* Properties of the metrics update of an activity (ActivitySpec).         *)
(***************************************************************************)
\* a step that processed an activity of the agent's session
ActivityStep == SessionStep("_post_process_codex_activity") /\ activity' # NoActivity

\* the token_usage document stored for the agent's session
TokenUsage(rows) == rows[AgentSession].metadata.metrics.token_usage.dict

\* the number a stored field holds, 0 if it holds none
Number(value) == IF DOMAIN value = {"int"} THEN value.int ELSE 0

\* the total_tokens stored for the agent's session before a step, 0 without a row
StoredTotal(rows) ==
    IF rows[AgentSession] = NoRow THEN 0 ELSE Number(TokenUsage(rows).total_tokens)

\* the delta of the update a step stored: last_task_tokens
StoredDelta(rows) == rows[AgentSession].metadata.metrics.last_task_tokens.int

\* C32: the total_tokens an activity stores is the total the payload reports
\* when it reports one, and otherwise the total stored before plus the delta
\* of this update.
C32_TotalIsReportedOrAccumulated ==
    [][ActivityStep =>
        TokenUsage(sessions').total_tokens.int =
            IF activity'.codex_result.total_tokens # JNull
            THEN activity'.codex_result.total_tokens.int
            ELSE StoredTotal(sessions) + StoredDelta(sessions')]_vars

\* C35: without a delta signal in the payload, the delta of the update is
\* ceil(len(prompt + " " + output) / 4), whether or not the prompt or the
\* output is empty, and is not negative.
C35_EstimateIsCeilOfJoinedLength ==
    [][(ActivityStep /\ activity'.codex_result.delta_tokens = JNull) =>
        /\ StoredDelta(sessions') = (activity'.prompt + 1 + activity'.output_text + 3) \div 4
        /\ StoredDelta(sessions') >= 0]_vars

\* C34: for each window, an activity whose payload has no used value for it
\* stores the used stored before plus the delta of the update, which is not
\* negative, so used does not decrease; a used value in the payload is stored
\* in its place; limit and remaining change only to a value of the payload.
C34_UsedAccumulatesWithoutSignal ==
    [][(ActivityStep /\ sessions[AgentSession] # NoRow) =>
        \A w \in {"five_hour", "weekly"} :
            LET signal == activity'.codex_result[w]
                before == TokenUsage(sessions)[w].dict
                after == TokenUsage(sessions')[w].dict
            IN  /\ StoredDelta(sessions') >= 0
                /\ IF signal.used # JNull THEN after.used = signal.used
                   ELSE /\ DOMAIN before.used = {"int"} =>
                            after.used = JInt(before.used.int + StoredDelta(sessions'))
                        /\ Number(after.used) >= Number(before.used)
                /\ after.limit = IF signal.limit # JNull THEN signal.limit ELSE before.limit
                /\ after.remaining = IF signal.remaining # JNull THEN signal.remaining
                                     ELSE before.remaining]_vars

\* the payload of the latest activity had no used value for the five-hour
\* window, and the used stored is the 5 of an earlier payload raised by deltas
C34_Witness ==
    /\ sLast.op = "_post_process_codex_activity"
    /\ activity # NoActivity
    /\ activity.codex_result.five_hour.used = JNull
    /\ TokenUsage(sessions).five_hour.dict.limit = JInt(20)
    /\ TokenUsage(sessions).five_hour.dict.used = JInt(7)
    /\ StoredDelta(sessions) = 2

(***************************************************************************)
(* Reports of a task that was reported before (WatcherSpec).               *)
(***************************************************************************)
\* the history length a recorded signature carries
HistoryLength(signature) == signature[3]

\* C33: a tick reports a task whose recorded signature is a terminal one only
\* if the history read is longer than the recorded length and its latest
\* entry is terminal; a task whose stored signature (latest status, latest
\* timestamp, history length) is the recorded one is not reported.
C33_ReportedAgainOnlyAfterGrowth ==
    [][(handoff = <<>> /\ handoff' # <<>>) =>
        \A t \in TaskIds :
            /\ (\E k \in 1..Len(handoff') : handoff'[k].task_id = t) =>
                /\ lastSeen'[t] # NoSignature
                /\ lastSeen'[t][1] \in TERMINAL_STATUSES
                /\ lastSeen[t] # NoSignature =>
                        HistoryLength(lastSeen'[t]) > HistoryLength(lastSeen[t])
            /\ StoredSignature(t) = lastSeen[t] =>
                \A k \in 1..Len(handoff') : handoff'[k].task_id # t]_vars

\* a task was reported, its history grew to a third entry that is terminal,
\* and a later tick reported it again and recorded the longer signature
C33_Witness ==
    \E t \in TaskIds :
        /\ handoff = <<>>
        /\ CountFor(emitted, t) = 2
        /\ lastSeen[t] # NoSignature
        /\ HistoryLength(lastSeen[t]) = 3
        /\ lastSeen[t] = StoredSignature(t)

(***************************************************************************)
(* Every completion is reported in the end (FairReportSpec).               *)
(***************************************************************************)
\* the task's latest entry is terminal and its signature is not the recorded
\* one, with the watcher's timer set and the consumer created
Unreported(t) ==
    /\ timer = "armed"
    /\ consumer # "none"
    /\ StoredSignature(t) # NoSignature
    /\ StoredSignature(t) # lastSeen[t]

\* every event found for the task has been emitted and passed to the
\* notifier, and the signature recorded for it is the stored one
CaughtUp(t) ==
    /\ lastSeen[t] = StoredSignature(t)
    /\ CountFor(handoff, t) = 0
    /\ CountFor(Flatten(notified), t) = CountFor(emitted, t)

C37_StatusIsLatestHistoryStatus ==
    \A i \in 1..Len(tasks) :
        /\ tasks[i].history # <<>>
        /\ tasks[i].history[Len(tasks[i].history)].status = tasks[i].status

\* a record was ended as failed and a note was appended to it: the note's
\* entry carries the status failed
C37_Witness ==
    \E i \in 1..Len(tasks) :
        /\ tasks[i].status = "failed"
        /\ Len(tasks[i].history) >= 3
        /\ tasks[i].history[Len(tasks[i].history)].note = WarningNote
        /\ tasks[i].history[Len(tasks[i].history)].status = "failed"

(***************************************************************************)
(* The status changes of a dispatched task (DispatchSpec).                 *)
(***************************************************************************)
\* C38: the history of a dispatched task starts with not_started and
\* in_progress, and the dispatcher puts the task into a terminal status at
\* most once, however the worker call and the steps after it end.
C38_OneTerminalTransition ==
    \A t \in TaskIds :
        /\ Len(HistoryOf(t)) >= 2 =>
            /\ HistoryOf(t)[1].status = "not_started"
            /\ HistoryOf(t)[2].status = "in_progress"
        /\ TerminalEntries(t) <= 1

(***************************************************************************)
(* Calls on a session id that is not stored (UpsertSpec).                  *)
(***************************************************************************)
\* C39: on an id that is not stored, append_entry, update_metrics,
\* update_settings and record_usage_warning for a usage window create one
\* record under that id, with no branch and the default metadata changed as
\* the call asks, and leave the other records as they are; update_branch, and
\* record_usage_warning for a window that is neither five_hour nor weekly,
\* create no record and change none.
C39_WritesCreateTheMissingRecord ==
    [][((sLast' # sLast \/ sessions' # sessions)
        /\ sLast'.op \in {"append_entry", "update_metrics", "update_settings",
                          "record_usage_warning", "update_branch"}
        /\ sessions[sLast'.session_id] = NoRow) =>
        LET id == sLast'.session_id
            op == sLast'.op
            created == sessions'[id]
        IN  /\ \A other \in SessionIds \ {id} : sessions'[other] = sessions[other]
            /\ IF \/ op = "update_branch"
                  \/ (op = "record_usage_warning"
                      /\ sLast'.arg[1] \notin {"five_hour", "weekly"})
               THEN created = NoRow
               ELSE /\ created # NoRow
                    /\ created.branch_name = None
                    /\ IF op = "append_entry"
                       THEN /\ Len(created.metadata.tasks) = 1
                            /\ created.metadata.tasks[1].prompt = sLast'.arg
                       ELSE created.metadata.tasks = <<>>
                    /\ IF op = "update_settings"
                       THEN created.metadata.settings =
                                [_default_settings EXCEPT !.model = sLast'.arg.model]
                       ELSE created.metadata.settings = _default_settings
                    /\ IF op = "update_metrics"
                       THEN IsDeepMerge(_default_metrics, sLast'.arg, created.metadata.metrics)
                       ELSE IF op = "record_usage_warning"
                       THEN /\ IsDeepMerge(_default_metrics,
                                    [token_usage |-> JDict([warnings |-> JDict(
                                        [w \in {sLast'.arg[1]} |-> JList(<<sLast'.arg[2]>>)])])],
                                    created.metadata.metrics)
                       ELSE created.metadata.metrics = _default_metrics]_vars

\* a warning recorded for the weekly window of an id that was not stored made
\* its record, beside the stored record of the other id, while a warning for
\* a window that is no usage window had made none
C39_Witness ==
    /\ sLast.op = "record_usage_warning"
    /\ sLast.arg = <<"weekly", 80>>
    /\ sessions[sLast.session_id] # NoRow
    /\ sessions[sLast.session_id].branch_name = None
    /\ sessions[sLast.session_id].metadata.tasks = <<>>
    /\ StoredLevels(sessions, sLast.session_id, "weekly") = <<80>>
    /\ StoredLevels(sessions, sLast.session_id, "five_hour") = <<>>
    /\ \E other \in SessionIds \ {sLast.session_id} :
        /\ sessions[other] # NoRow
        /\ Len(sessions[other].metadata.tasks) = 1

====
